---- MODULE Spec2Model ----
(***************************************************************************)
(* Model of the Google Meet agent: the cascading text-to-speech chain      *)
(* (improved-generate-tts.js and its standalone twin), the speech          *)
(* orchestrator (synthesizeSpeech / speakAndDo) and the multi-tier         *)
(* keep-alive orchestrator (keepMeetingAlive, main, handleExit).           *)
(***************************************************************************)
EXTENDS Integers, Sequences, FiniteSets, Bags, TLC

(***************************************************************************)
(* Bounds                                                                  *)
(***************************************************************************)
\* generateTTS calls made one after the other in one behaviour of SpecTTS
MaxCalls == 1
\* speakAndDo calls made one after the other in a behaviour of SpecSpeak
MaxSpeakCalls == 2
\* Words of the longest text handed to speakAndDo's hold computation
MaxWords == 11
\* Punctuation marks of such a text
MaxPunct == 2
\* Artifacts of each kind that the temporary directory may hold
MaxRequests == 2
MaxMs == 2
MaxArtifacts == 2
\* Clock ticks (of one micro interval each) explored in a behaviour of SpecKA
MaxTicks == 21
\* Timer callbacks that are in flight at the same time
MaxActive == 2
\* Timer callbacks still in flight when the clock reaches the next tick
MaxLingering == 1
\* Times the meeting session is lost or regained during a behaviour
MaxFlips == 1
\* The session keeps its initial state until this tick
FirstFlipTick == 21
\* Pointer moves that raise (and abort their callback) during a behaviour
MaxFaults == 1
\* The main control flow has parked by the end of this tick
MainDeadlineTicks == 1

(***************************************************************************)
(* State                                                                   *)
(***************************************************************************)
VARIABLES
  variant,           \* "module" (improved-generate-tts.js) or "standalone"
  platform,          \* process.platform
  openaiConfigured,  \* openai client available and OPENAI_API_KEY set
  sayLoaded,         \* require('say') succeeded
  args,              \* per generateTTS call: [silentPlay, outputPath]
  pc,                \* position of the current generateTTS call
  attempts,          \* providers attempted by the current call, in order
  produced,          \* providers that wrote an artifact in the current call
  result,            \* what the current call's promise resolved to
  uncaught,          \* the function whose callback let an exception escape
  files,             \* paths that hold an audio file
  scripts,           \* temporary .ps1 script files on disk
  copying,           \* fire-and-forget fs.copy calls not yet completed
  copyLog,           \* every fs.copy issued so far: <<source, destination>>
  playing,           \* player commands whose exec callback is pending
  playLog,           \* every player command issued: [call, cmd]
  silentLog,         \* calls for which "Would have played" was logged
  directSpeech       \* calls in which mshta spoke the text without a file

\* keep-alive orchestrator (bot.js as embedded in README.md)
VARIABLES
  now,               \* Date.now(), ms since keepMeetingAlive was called
  nextDue,           \* per interval timer: the time of its next firing
  cbs,               \* bag of timer callbacks in flight: [tier, pc, alive]
  lastMajorActivity, \* keepMeetingAlive's lastMajorActivity
  keepAliveCounter,  \* keepMeetingAlive's keepAliveCounter
  started,           \* timer callbacks started so far
  main,              \* position of the main control flow
  shutdown,          \* position of handleExit
  browserClosed,     \* browser.close() has taken effect
  inMeeting,         \* the session is live (what checkIfInMeeting observes)
  flips,             \* times the session was lost or regained so far
  faults             \* pointer moves that raised so far

kaVars == <<now, nextDue, cbs, lastMajorActivity, keepAliveCounter, started,
            main, shutdown, browserClosed, inMeeting, flips, faults>>

\* speech orchestrator: one caller running speakAndDo / synthesizeSpeech
VARIABLES
  sp,                \* position inside speakAndDo and synthesizeSpeech
  spCalls,           \* speakAndDo calls made so far
  fnGiven,           \* typeof fn === 'function' for the current call
  speechSuccess,     \* what synthesizeSpeech returned to speakAndDo
  followups,         \* times the current call has invoked fn
  fnThrew,           \* the current call's fn raised or rejected
  tmpFiles,          \* bot-tts artifacts of synthesizeSpeech on disk
  loopbacks,         \* PulseAudio module-loopback instances loaded
  player,            \* the player that played the current call's artifact
  stages             \* the stages the current call has gone through, in order

spVars == <<sp, spCalls, fnGiven, speechSuccess, followups, fnThrew,
            tmpFiles, loopbacks, player, stages>>

\* speakAndDo's hold, computed for one text at a time
VARIABLES
  holdText,          \* the text: a sequence of words, whitespace runs, marks
  holdDone,          \* speechDuration has been computed for holdText
  holdValue          \* speechDuration, in thirds of a millisecond

holdVars == <<holdText, holdDone, holdValue>>

\* the cleanup paths (fs.unlink in synthesizeSpeech, clearOldTempFiles)
VARIABLES
  tmpDir,            \* names of the files in os.tmpdir()
  cleaned,           \* artifacts an earlier cleanup has deleted
  cleanupRaised,     \* an error escaped from a cleanup path
  lastCleanup        \* what the latest cleanup run was and did

cleanVars == <<tmpDir, cleaned, cleanupRaised, lastCleanup>>

\* synthesizeSpeech calls in flight together (bot.js: main and the timers)
VARIABLES
  reqPc,             \* per request: its position inside synthesizeSpeech
  reqPath,           \* per request: its uniqueTtsPath, NoPath before naming
  msNow,             \* Date.now() in milliseconds
  tmpAudio           \* audio files in tmpDir: <<path, request that wrote it>>

pathVars == <<reqPc, reqPath, msNow, tmpAudio>>

\* one micro callback and its call of checkIfInMeeting, probe by probe
VARIABLES
  chkPc,             \* position of the micro callback
  selectorResults,   \* outcomes of the isVisible probes made so far
  urlIsMeeting,      \* page.url() matches one of the meeting URL patterns
  stillInMeeting,    \* what checkIfInMeeting returned ("none" before)
  recoveryChecked    \* the callback has called checkNeedRecovery

chkVars == <<chkPc, selectorResults, urlIsMeeting, stillInMeeting,
             recoveryChecked>>

\* one callback of a speaking tier, from its synthesizeSpeech call on
VARIABLES
  spkTier,           \* the tier; "micro" stands for its recovery probe
  spkPc,             \* position of the callback
  spkResult          \* what its synthesizeSpeech returned ("none" before)

spkVars == <<spkTier, spkPc, spkResult>>

cfgVars == <<variant, platform, openaiConfigured, sayLoaded>>
ttsVars == <<args, pc, attempts, produced, result, uncaught, files, scripts,
             copying, copyLog, playing, playLog, silentLog, directSpeech>>

vars == <<cfgVars, ttsVars, kaVars, spVars, holdVars, cleanVars, pathVars,
          chkVars, spkVars>>
OutsideTTS   == <<kaVars, spVars, holdVars, cleanVars, pathVars,
                  chkVars, spkVars>>
OutsideKA    == <<cfgVars, ttsVars, spVars, holdVars, cleanVars, pathVars,
                  chkVars, spkVars>>
OutsideSpeak == <<cfgVars, ttsVars, kaVars, holdVars, cleanVars, pathVars,
                  chkVars, spkVars>>
OutsideHold  == <<cfgVars, ttsVars, kaVars, spVars, cleanVars, pathVars,
                  chkVars, spkVars>>
OutsideClean == <<cfgVars, ttsVars, kaVars, spVars, holdVars, pathVars,
                  chkVars, spkVars>>
OutsidePaths == <<ttsVars, kaVars, spVars, holdVars, cleanVars,
                  variant, openaiConfigured, sayLoaded, chkVars, spkVars>>
OutsideChk   == <<cfgVars, ttsVars, kaVars, spVars, holdVars, cleanVars,
                  pathVars, spkVars>>
OutsideSpk   == <<cfgVars, ttsVars, spVars, holdVars, cleanVars, chkVars,
                  reqPc, reqPath, tmpAudio, now, nextDue, cbs,
                  keepAliveCounter, started, main, shutdown, browserClosed,
                  inMeeting, flips, faults>>

Variants  == {"module", "standalone"}
Platforms == {"win32", "darwin", "linux"}
Providers == <<"openai", "say", "platform">>

\* A path is <<directory or stem, call number, extension>>.
\* outputPath argument: NoPath is the falsy (absent) path
NoPath      == <<"", 0, "">>
OutputPaths == {NoPath, <<"out", 0, "wav">>, <<"out", 0, "mp3">>}

Range(s) == {s[i] : i \in 1..Len(s)}

\* generateUniqueFilename: one fresh name per call and extension
generateUniqueFilename(call, ext) == <<"bot-tts", call, ext>>

\* outputPath.replace(/\.wav$/, '.mp3')
ReplaceWavExt(p) == IF p[3] = "wav" THEN <<p[1], p[2], "mp3">> ELSE p

call == Len(args)
silentPlay == args[call].silentPlay
outputPath == args[call].outputPath
uniqueWavPath == generateUniqueFilename(call, "wav")
uniqueMp3Path == generateUniqueFilename(call, "mp3")
finalOutputPath == IF outputPath # NoPath THEN outputPath ELSE uniqueWavPath

(***************************************************************************)
(* playSound                                                               *)
(***************************************************************************)
\* The flag that platformSpecificTTS hands to playSound
PlatformPlayFlag(v, silent) == IF v = "standalone" THEN ~silent ELSE silent

\* playSound returns early (log only) when it honours a set silent flag
PlaySuppressed(v, flag) == v = "standalone" /\ flag

\* The player command playSound issues, "none" when nothing is exec'd.
\* writeOk: fs.writeFileSync of the play-sound script succeeded (win32).
PlayCommand(v, plat, flag, writeOk) ==
  IF PlaySuppressed(v, flag) THEN "none"
  ELSE IF plat = "win32" THEN (IF writeOk THEN "powershell" ELSE "none")
  ELSE IF plat = "darwin" THEN "afplay"
  ELSE "mpg123||aplay||play"

\* State change of one playSound(audioPath, flag) call; scr is the set of
\* script files on disk when it is called
playSound(audioPath, flag, writeOk, scr) ==
  LET cmd == PlayCommand(variant, platform, flag, writeOk) IN
  /\ silentLog' = IF PlaySuppressed(variant, flag)
                  THEN silentLog \cup {call} ELSE silentLog
  /\ IF cmd = "none"
     THEN UNCHANGED <<playing, playLog>>
     ELSE /\ playing' = playing \cup {[call |-> call, cmd |-> cmd]}
          /\ playLog' = playLog \cup {[call |-> call, cmd |-> cmd]}
  /\ scripts' = IF cmd = "powershell"
                THEN scr \cup {<<"play-sound", call>>} ELSE scr

(***************************************************************************)
(* generateTTS                                                             *)
(***************************************************************************)
TTSInit ==
  /\ variant \in Variants
  /\ platform \in Platforms
  /\ openaiConfigured \in BOOLEAN
  /\ sayLoaded \in BOOLEAN
  /\ args = <<>>
  /\ pc = "idle"
  /\ attempts = <<>>
  /\ produced = {}
  /\ result = "none"
  /\ uncaught = "none"
  /\ files = {}
  /\ scripts = {}
  /\ copying = {}
  /\ copyLog = {}
  /\ playing = {}
  /\ playLog = {}
  /\ silentLog = {}
  /\ directSpeech = {}

\* A caller invokes generateTTS(text, outputPath, silentPlay)
CallGenerateTTS(o, s) ==
  /\ pc \in {"idle", "resolved"}
  /\ Len(args) < MaxCalls
  /\ args' = Append(args, [silentPlay |-> s, outputPath |-> o])
  /\ pc' = "try_openai"
  /\ attempts' = <<>>
  /\ produced' = {}
  /\ result' = "pending"
  /\ UNCHANGED <<OutsideTTS, cfgVars, directSpeech, uncaught,
                 files, scripts, copying, copyLog, playing, playLog, silentLog>>

\* if (openai && process.env.OPENAI_API_KEY) { ... create(...) }
TryOpenAI ==
  /\ pc = "try_openai"
  /\ IF openaiConfigured
     THEN /\ attempts' = Append(attempts, "openai")
          /\ pc' = "openai_create"
     ELSE /\ pc' = "try_say"
          /\ UNCHANGED attempts
  /\ UNCHANGED <<OutsideTTS, cfgVars, directSpeech, args,
                 produced, result, uncaught, files, scripts, copying, copyLog,
                 playing, playLog, silentLog>>

\* await openai.audio.speech.create(...) and resp.arrayBuffer()
OpenAIResponds(ok) ==
  /\ pc = "openai_create"
  /\ pc' = IF ok THEN "openai_write" ELSE "try_say"
  /\ UNCHANGED <<OutsideTTS, cfgVars, directSpeech, args,
                 attempts, produced, result, uncaught, files, scripts,
                 copying, copyLog, playing, playLog, silentLog>>

\* await fs.writeFile(uniqueMp3Path, buffer); playSound; copy or return true
OpenAIWrite(ok, writeOk) ==
  /\ pc = "openai_write"
  /\ IF ok
     THEN /\ files' = files \cup {uniqueMp3Path}
          /\ produced' = produced \cup {"openai"}
          /\ playSound(uniqueMp3Path, silentPlay, writeOk, scripts)
          /\ IF outputPath # NoPath
             THEN pc' = "openai_copy" /\ UNCHANGED result
             ELSE pc' = "resolved" /\ result' = "true"
     ELSE /\ pc' = "try_say"
          /\ UNCHANGED <<files, produced, result, scripts, playing, playLog,
                         silentLog>>
  /\ UNCHANGED <<OutsideTTS, cfgVars, directSpeech, args,
                 attempts, uncaught, copying, copyLog>>

\* await fs.copy(uniqueMp3Path, outputPath.replace(/\.wav$/, '.mp3'))
OpenAICopy(ok) ==
  /\ pc = "openai_copy"
  /\ files' = IF ok THEN files \cup {ReplaceWavExt(outputPath)} ELSE files
  /\ copyLog' = copyLog \cup {<<uniqueMp3Path, ReplaceWavExt(outputPath)>>}
  /\ pc' = "resolved"
  /\ result' = "true"
  /\ UNCHANGED <<OutsideTTS, cfgVars, directSpeech, args,
                 attempts, produced, uncaught, scripts, copying, playing,
                 playLog, silentLog>>

\* if (say) { say.export(...) } else platformSpecificTTS(...)
\* throws: say.export raised synchronously inside the promise executor
TrySay(throws) ==
  /\ pc = "try_say"
  /\ IF sayLoaded
     THEN /\ attempts' = Append(attempts, "say")
          /\ pc' = IF throws THEN "try_platform" ELSE "say_export"
     ELSE /\ pc' = "try_platform"
          /\ UNCHANGED attempts
  /\ UNCHANGED <<OutsideTTS, cfgVars, directSpeech, args,
                 produced, result, uncaught, files, scripts, copying, copyLog,
                 playing, playLog, silentLog>>

\* A say.export callback that goes on to platformSpecificTTS even without err
SayCallbackAlwaysFallsBack(err) == TRUE

\* The say.export callback falls back to platformSpecificTTS only on err
SayCallbackFallsBack(err) == err

\* The fire-and-forget copy of a finished wav artifact
CopyNeeded(dst, src) == dst # NoPath /\ dst # src

\* say.export(text, null, 1.0, uniqueWavPath, (err) => { ... })
SayCallback(err, writeOk) ==
  /\ pc = "say_export"
  /\ IF ~err
     THEN /\ files' = files \cup {uniqueWavPath}
          /\ produced' = produced \cup {"say"}
          /\ copying' = IF CopyNeeded(outputPath, uniqueWavPath)
                        THEN copying \cup {<<uniqueWavPath, outputPath>>}
                        ELSE copying
          /\ copyLog' = IF CopyNeeded(outputPath, uniqueWavPath)
                        THEN copyLog \cup {<<uniqueWavPath, outputPath>>}
                        ELSE copyLog
          /\ playSound(uniqueWavPath, silentPlay, writeOk, scripts)
     ELSE UNCHANGED <<files, produced, copying, copyLog, scripts, playing, playLog,
                      silentLog>>
  /\ IF SayCallbackFallsBack(err)
     THEN pc' = "try_platform" /\ UNCHANGED result
     ELSE pc' = "resolved" /\ result' = "true"
  /\ UNCHANGED <<OutsideTTS, cfgVars, directSpeech, args,
                 attempts, uncaught>>


\* An mshta callback that reports success when the speech command worked
MshtaResultOptimistic(err2) == IF err2 THEN "false" ELSE "true"

\* Result of the "last resort" mshta speech (no file output): resolve(false)
MshtaResult(err2) == "false"

\* platformSpecificTTS, synchronous part: write the script (win32) and exec.
\* syncThrow: fs.writeFileSync or exec raised inside the try block.
PlatformStart(syncThrow) ==
  /\ pc = "try_platform"
  /\ attempts' = Append(attempts, "platform")
  /\ IF syncThrow
     THEN /\ pc' = "resolved"
          /\ result' = "false"
          /\ UNCHANGED scripts
     ELSE /\ pc' = CASE platform = "win32"  -> "ps_exec"
                    [] platform = "darwin" -> "say_cmd"
                    [] OTHER               -> "espeak"
          /\ scripts' = IF platform = "win32"
                        THEN scripts \cup {<<"tts-script", call>>}
                        ELSE scripts
          /\ UNCHANGED result
  /\ UNCHANGED <<OutsideTTS, cfgVars, directSpeech, args, produced, uncaught, files, copying, copyLog, playing,
                 playLog, silentLog>>

\* Success branch shared by the three platform callbacks: optional copy,
\* playSound, resolve(true)
PlatformSuccess(writeOk, scr) ==
  /\ files' = files \cup {uniqueWavPath}
  /\ produced' = produced \cup {"platform"}
  /\ copying' = IF CopyNeeded(finalOutputPath, uniqueWavPath)
                THEN copying \cup {<<uniqueWavPath, finalOutputPath>>}
                ELSE copying
  /\ copyLog' = IF CopyNeeded(finalOutputPath, uniqueWavPath)
                THEN copyLog \cup {<<uniqueWavPath, finalOutputPath>>}
                ELSE copyLog
  /\ playSound(uniqueWavPath, PlatformPlayFlag(variant, silentPlay), writeOk,
               scr)
  /\ pc' = "resolved"
  /\ result' = "true"

\* exec(`powershell ... -File uniquePs1Path`, (err) => { ... })
\* removeThrows: fs.removeSync(uniquePs1Path) raised inside the callback
PsCallback(err, removeThrows, writeOk) ==
  /\ pc = "ps_exec"
  /\ IF removeThrows
     THEN /\ uncaught' = "platformSpecificTTS"
          /\ pc' = "crashed"
          /\ files' = IF err THEN files ELSE files \cup {uniqueWavPath}
          /\ produced' = IF err THEN produced ELSE produced \cup {"platform"}
          /\ UNCHANGED <<result, scripts, copying, copyLog, playing, playLog,
                         silentLog>>
     ELSE /\ UNCHANGED uncaught
          /\ IF err
             THEN /\ pc' = "mshta"
                  /\ scripts' = scripts \ {<<"tts-script", call>>}
                  /\ UNCHANGED <<result, files, produced, copying, copyLog, playing,
                                 playLog, silentLog>>
             ELSE PlatformSuccess(writeOk, scripts \ {<<"tts-script", call>>})
  /\ UNCHANGED <<OutsideTTS, cfgVars, directSpeech, args, attempts>>

\* exec(`mshta vbscript:...`, (err2) => { ...; resolve(false) })
MshtaCallback(err2) ==
  /\ pc = "mshta"
  /\ pc' = "resolved"
  /\ result' = MshtaResult(err2)
  /\ directSpeech' = IF err2 THEN directSpeech ELSE directSpeech \cup {call}
  /\ UNCHANGED <<OutsideTTS, cfgVars, args, attempts, produced, uncaught, files, scripts,
                 copying, copyLog, playing, playLog, silentLog>>

\* exec(`say -o "${outputPath}" ...`, (err) => { ... })
SayCmdCallback(err) ==
  /\ pc = "say_cmd"
  /\ IF err
     THEN /\ pc' = "resolved"
          /\ result' = "false"
          /\ UNCHANGED <<files, produced, copying, copyLog, scripts, playing, playLog,
                         silentLog>>
     ELSE PlatformSuccess(TRUE, scripts)
  /\ UNCHANGED <<OutsideTTS, cfgVars, directSpeech, args, attempts, uncaught>>

\* exec(`espeak "..." -w "${outputPath}"`, (err) => { ... })
EspeakCallback(err) ==
  /\ pc = "espeak"
  /\ IF err
     THEN /\ pc' = "resolved"
          /\ result' = "false"
          /\ UNCHANGED <<files, produced, copying, copyLog, scripts, playing, playLog,
                         silentLog>>
     ELSE PlatformSuccess(TRUE, scripts)
  /\ UNCHANGED <<OutsideTTS, cfgVars, directSpeech, args, attempts, uncaught>>

\* The secondary player tried after player cmd failed, "none" if there is none
NextPlayer(v, cmd) ==
  IF v = "standalone" /\ cmd = "powershell" THEN "mplayer"
  ELSE IF v = "standalone" /\ cmd = "mplayer" THEN "wmplayer"
  ELSE "none"

\* The exec callback of a player command issued by playSound
\* removeThrows: fs.removeSync(ps1Path) raised inside the callback (win32)
PlayCallback(p, err, removeThrows) ==
  /\ p \in playing
  /\ uncaught = "none"
  /\ IF p.cmd = "powershell" /\ removeThrows
     THEN /\ uncaught' = "playSound"
          /\ pc' = "crashed"
          /\ UNCHANGED <<scripts, playing, playLog>>
     ELSE /\ scripts' = IF p.cmd = "powershell"
                        THEN scripts \ {<<"play-sound", p.call>>}
                        ELSE scripts
          /\ LET nxt == IF err THEN NextPlayer(variant, p.cmd) ELSE "none" IN
             IF nxt = "none"
             THEN /\ playing' = playing \ {p}
                  /\ UNCHANGED playLog
             ELSE /\ playing' = (playing \ {p})
                                  \cup {[call |-> p.call, cmd |-> nxt]}
                  /\ playLog' = playLog \cup {[call |-> p.call, cmd |-> nxt]}
          /\ UNCHANGED <<uncaught, pc>>
  /\ UNCHANGED <<OutsideTTS, cfgVars, directSpeech, args, attempts, produced, result, files, copying, copyLog,
                 silentLog>>

\* Completion of a fire-and-forget fs.copy(src, dst).catch(...)
CopyCallback(c, ok) ==
  /\ c \in copying
  /\ uncaught = "none"
  /\ copying' = copying \ {c}
  /\ UNCHANGED copyLog
  /\ files' = IF ok THEN files \cup {c[2]} ELSE files
  /\ UNCHANGED <<OutsideTTS, cfgVars, directSpeech, args, pc, attempts, produced, result, uncaught,
                 scripts, playing, playLog, silentLog>>

\* The child process of say.export or of an exec(...) of platformSpecificTTS
\* never exits: neither call is given a timeout, so its callback is never
\* called and the promise of generateTTS stays pending
ExternalCallHangs ==
  /\ pc \in {"say_export", "ps_exec", "mshta", "say_cmd", "espeak"}
  /\ pc' = "never_resolves"
  /\ UNCHANGED <<OutsideTTS, cfgVars, directSpeech, args, attempts, produced,
                 result, uncaught, files, scripts, copying, copyLog, playing,
                 playLog, silentLog>>

PlayCmds    == {"powershell", "mplayer", "wmplayer", "afplay",
                "mpg123||aplay||play"}
PlayRecords == [call : 1..MaxCalls, cmd : PlayCmds]
CopyPairs   == {<<generateUniqueFilename(c, "wav"), o>> :
                  c \in 1..MaxCalls, o \in OutputPaths \ {NoPath}}

TTSNext ==
  \/ \E o \in OutputPaths, s \in BOOLEAN : CallGenerateTTS(o, s)
  \/ TryOpenAI
  \/ \E ok \in BOOLEAN : OpenAIResponds(ok)
  \/ \E ok \in BOOLEAN, writeOk \in BOOLEAN : OpenAIWrite(ok, writeOk)
  \/ \E ok \in BOOLEAN : OpenAICopy(ok)
  \/ \E throws \in BOOLEAN : TrySay(throws)
  \/ \E err \in BOOLEAN, writeOk \in BOOLEAN : SayCallback(err, writeOk)
  \/ \E syncThrow \in BOOLEAN : PlatformStart(syncThrow)
  \/ \E err \in BOOLEAN, removeThrows \in BOOLEAN, writeOk \in BOOLEAN :
       PsCallback(err, removeThrows, writeOk)
  \/ \E err2 \in BOOLEAN : MshtaCallback(err2)
  \/ \E err \in BOOLEAN : SayCmdCallback(err)
  \/ \E err \in BOOLEAN : EspeakCallback(err)
  \/ \E p \in PlayRecords, err \in BOOLEAN, removeThrows \in BOOLEAN :
       PlayCallback(p, err, removeThrows)
  \/ \E c \in CopyPairs, ok \in BOOLEAN : CopyCallback(c, ok)
  \/ ExternalCallHangs


(***************************************************************************)
(* Speech orchestrator: synthesizeSpeech and speakAndDo (bot.js)           *)
(***************************************************************************)
SpeakInit ==
  /\ sp = "idle"
  /\ spCalls = 0
  /\ fnGiven = FALSE
  /\ speechSuccess = FALSE
  /\ followups = 0
  /\ fnThrew = FALSE
  /\ tmpFiles = {}
  /\ loopbacks = 0
  /\ player = "none"
  /\ stages = <<>>

\* A speakAndDo that runs the follow-up only after a successful speech
FollowupInvokedIfSpoken(success, isFunction) == success /\ isFunction

\* speakAndDo runs fn whenever typeof fn === 'function', whatever
\* synthesizeSpeech returned
FollowupInvoked(success, isFunction) == isFunction

\* A speakAndDo without the try/catch around fn
FollowupErrorRethrown(throws) == IF throws THEN "rejected" ELSE "returned"

\* speakAndDo's try/catch around fn: the error is logged, the call returns
FollowupErrorOutcome(throws) == "returned"

\* The first playback command of synthesizeSpeech on this platform
FirstPlayer(plat) ==
  CASE plat = "win32"  -> "s_wmplayer"
    [] plat = "darwin" -> "s_afplay"
    [] OTHER           -> "s_pactl_load"

\* A synthesizeSpeech that starts the player before the audio is written
AfterCreatePlaysFirst(plat) == FirstPlayer(plat)

\* After the response arrived synthesizeSpeech writes the audio to
\* uniqueTtsPath, and only then plays it
AfterCreate(plat) == "s_write"

\* A caller invokes speakAndDo(text, fn); it awaits synthesizeSpeech(text),
\* which awaits openai.audio.speech.create
CallSpeakAndDo(isFunction) ==
  /\ sp \in {"idle", "returned"}
  /\ spCalls < MaxSpeakCalls
  /\ spCalls' = spCalls + 1
  /\ fnGiven' = isFunction
  /\ followups' = 0
  /\ fnThrew' = FALSE
  /\ speechSuccess' = FALSE
  /\ sp' = "s_create"
  /\ player' = "none"
  /\ stages' = <<>>
  /\ UNCHANGED <<OutsideSpeak, tmpFiles, loopbacks>>

\* A step of synthesizeSpeech from position `from`: it goes on to `to`, or
\* an error reaches the outer catch and synthesizeSpeech returns false
SynthStep(from, to, caught, played, events) ==
  /\ sp = from
  /\ player' = IF played = "none" THEN player ELSE played
  /\ stages' = stages \o events \o (IF caught THEN <<"hold">> ELSE <<>>)
  /\ IF caught
     THEN sp' = "hold" /\ speechSuccess' = FALSE
     ELSE sp' = to /\ UNCHANGED speechSuccess
  /\ UNCHANGED <<OutsideSpeak, spCalls, fnGiven, followups, fnThrew>>

\* await openai.audio.speech.create(...) and resp.arrayBuffer()
SynthCreate(ok) ==
  /\ SynthStep("s_create", AfterCreate(platform), ~ok,
               "none",
               <<>>)
  /\ UNCHANGED <<tmpFiles, loopbacks>>

\* await fs.writeFile(uniqueTtsPath, buffer)
SynthWrite(ok) ==
  /\ SynthStep("s_write", FirstPlayer(platform), ~ok,
               "none",
               IF ok THEN <<"synthesized">> ELSE <<>>)
  /\ tmpFiles' = IF ok THEN tmpFiles \cup {spCalls} ELSE tmpFiles
  /\ UNCHANGED loopbacks

\* win32: start /wait wmplayer; its error is caught next to the call
SynthWmplayer(ok) ==
  /\ SynthStep("s_wmplayer", "s_wait", FALSE,
               IF ok THEN "wmplayer" ELSE "none",
               <<"play">>)
  /\ UNCHANGED <<tmpFiles, loopbacks>>

\* darwin: afplay; an error goes to the outer catch
SynthAfplay(ok) ==
  /\ SynthStep("s_afplay", "s_wait", ~ok,
               IF ok THEN "afplay" ELSE "none",
               <<"play">>)
  /\ UNCHANGED <<tmpFiles, loopbacks>>

\* linux: pactl load-module module-loopback; an error starts the fallbacks
SynthPactlLoad(ok) ==
  /\ SynthStep("s_pactl_load", IF ok THEN "s_paplay" ELSE "s_mpg123", FALSE,
               "none",
               <<>>)
  /\ loopbacks' = IF ok THEN loopbacks + 1 ELSE loopbacks
  /\ UNCHANGED tmpFiles

\* linux: paplay; an error starts the fallbacks
SynthPaplay(ok) ==
  /\ SynthStep("s_paplay", IF ok THEN "s_pactl_unload" ELSE "s_mpg123", FALSE,
               IF ok THEN "paplay" ELSE "none",
               <<"play">>)
  /\ UNCHANGED <<tmpFiles, loopbacks>>

\* linux: sleep 1 && pactl unload-module module-loopback (unloads every
\* instance of that name); an error starts the fallbacks
SynthPactlUnload(ok) ==
  /\ SynthStep("s_pactl_unload", IF ok THEN "s_wait" ELSE "s_mpg123", FALSE,
               "none",
               <<>>)
  /\ loopbacks' = IF ok THEN 0 ELSE loopbacks
  /\ UNCHANGED tmpFiles

\* linux fallback: mpg123, then aplay
SynthMpg123(ok) ==
  /\ SynthStep("s_mpg123", IF ok THEN "s_wait" ELSE "s_aplay", FALSE,
               IF ok THEN "mpg123" ELSE "none",
               <<"play">>)
  /\ UNCHANGED <<tmpFiles, loopbacks>>

\* linux fallback: aplay; an error goes to the outer catch
SynthAplay(ok) ==
  /\ SynthStep("s_aplay", "s_wait", ~ok,
               IF ok THEN "aplay" ELSE "none",
               <<"play">>)
  /\ UNCHANGED <<tmpFiles, loopbacks>>

\* await delay(waitTime)
SynthWait ==
  /\ SynthStep("s_wait", "s_unlink", FALSE, "none", <<>>)
  /\ UNCHANGED <<tmpFiles, loopbacks>>

\* await fs.unlink(uniqueTtsPath) (its error is caught); return true
SynthUnlink(ok) ==
  /\ sp = "s_unlink"
  /\ tmpFiles' = IF ok THEN tmpFiles \ {spCalls} ELSE tmpFiles
  /\ speechSuccess' = TRUE
  /\ sp' = "hold"
  /\ stages' = stages \o <<"unlink", "hold">>
  /\ UNCHANGED <<OutsideSpeak, spCalls, fnGiven, followups, fnThrew,
                 loopbacks, player>>

\* speakAndDo: await delay(speechDuration) ended; fn is invoked
HoldDone ==
  /\ sp = "hold"
  /\ IF FollowupInvoked(speechSuccess, fnGiven)
     THEN /\ sp' = "followup"
          /\ followups' = followups + 1
          /\ stages' = stages \o <<"held", "followup">>
     ELSE /\ sp' = "returned"
          /\ stages' = Append(stages, "held")
          /\ UNCHANGED followups
  /\ UNCHANGED <<OutsideSpeak, spCalls, fnGiven, speechSuccess, fnThrew,
                 tmpFiles, loopbacks, player>>

\* speakAndDo: await fn() settled
FollowupDone(throws) ==
  /\ sp = "followup"
  /\ fnThrew' = throws
  /\ sp' = FollowupErrorOutcome(throws)
  /\ UNCHANGED <<OutsideSpeak, spCalls, fnGiven, speechSuccess, followups,
                 tmpFiles, loopbacks, player, stages>>

SpeakNext ==
  \/ \E isFunction \in BOOLEAN : CallSpeakAndDo(isFunction)
  \/ \E ok \in BOOLEAN : SynthCreate(ok)
  \/ \E ok \in BOOLEAN : SynthWrite(ok)
  \/ \E ok \in BOOLEAN : SynthWmplayer(ok)
  \/ \E ok \in BOOLEAN : SynthAfplay(ok)
  \/ \E ok \in BOOLEAN : SynthPactlLoad(ok)
  \/ \E ok \in BOOLEAN : SynthPaplay(ok)
  \/ \E ok \in BOOLEAN : SynthPactlUnload(ok)
  \/ \E ok \in BOOLEAN : SynthMpg123(ok)
  \/ \E ok \in BOOLEAN : SynthAplay(ok)
  \/ SynthWait
  \/ \E ok \in BOOLEAN : SynthUnlink(ok)
  \/ HoldDone
  \/ \E throws \in BOOLEAN : FollowupDone(throws)

(***************************************************************************)
(* speakAndDo's hold: Math.max(3000, wordCount / 3 * 1000 + marks * 300)   *)
(* Durations are kept in thirds of a millisecond, so that wordCount / 3   *)
(* is exact.                                                               *)
(***************************************************************************)
WordsPerSecond == 3
MinHoldMs == 3000
MsPerSecond == 1000
PunctuationPauseMs == 300

\* n words separated by single whitespace runs
RECURSIVE Words(_)
Words(n) == IF n = 0 THEN <<>>
            ELSE IF n = 1 THEN <<"word">>
            ELSE Words(n - 1) \o <<"space", "word">>

\* A text: optional leading whitespace, n words, p punctuation marks after
\* the last word, optional trailing whitespace
Text(lead, n, p, trail) ==
  (IF lead THEN <<"space">> ELSE <<>>) \o Words(n) \o [i \in 1..p |-> "mark"]
    \o (IF trail THEN <<"space">> ELSE <<>>)

Texts == {Text(lead, n, p, trail) :
            lead \in BOOLEAN, n \in 0..MaxWords, p \in 0..MaxPunct,
            trail \in BOOLEAN}

\* text.split(/\s+/).length: one more than the number of whitespace runs
\* (the empty strings before a leading and after a trailing run count)
wordCount(text) ==
  Cardinality({i \in 1..Len(text) :
                 text[i] = "space" /\ (i = 1 \/ text[i - 1] # "space")}) + 1

\* (text.match(/[.,!?;]/g) || []).length
punctuationCount(text) ==
  Cardinality({i \in 1..Len(text) : text[i] = "mark"})

\* (wordCount / 3) * 1000
baseSpeechDuration(text) == wordCount(text) * MsPerSecond

\* punctuationCount * 300
punctuationPause(text) ==
  punctuationCount(text) * PunctuationPauseMs * WordsPerSecond

\* A hold without the floor
MathMaxDropsFloor(floor, computed) == computed

\* Math.max(3000, baseSpeechDuration + punctuationPause)
MathMax(floor, computed) == IF computed > floor THEN computed ELSE floor

speechDuration(text) ==
  MathMax(MinHoldMs * WordsPerSecond,
          baseSpeechDuration(text) + punctuationPause(text))

HoldInit ==
  /\ holdText = <<>>
  /\ holdDone = FALSE
  /\ holdValue = 0

\* speakAndDo is called with a text
HoldText(text) ==
  /\ holdText' = text
  /\ holdDone' = FALSE
  /\ holdValue' = 0
  /\ UNCHANGED OutsideHold

\* speakAndDo computes speechDuration and starts delay(speechDuration)
HoldCompute ==
  /\ ~holdDone
  /\ holdDone' = TRUE
  /\ holdValue' = speechDuration(holdText)
  /\ UNCHANGED <<OutsideHold, holdText>>

HoldNext ==
  \/ \E text \in Texts : HoldText(text)
  \/ HoldCompute

(***************************************************************************)
(* Cleanup paths: the unlink of synthesizeSpeech and clearOldTempFiles     *)
(***************************************************************************)
\* The files the temporary directory may hold: speech artifacts and the
\* scripts of platformSpecificTTS
TmpArtifacts ==
  {generateUniqueFilename(k, ext) : k \in 1..MaxArtifacts, ext \in {"mp3", "wav"}}
TmpScripts == {<<"tts-script", k, "ps1">> : k \in 1..MaxArtifacts}
TmpNames == TmpArtifacts \cup TmpScripts

\* A filter that takes every speech-related file of the directory
IsAnyTtsFile(file) == file[1] \in {"bot-tts", "tts-script"}

\* file.startsWith('bot-tts')
IsOldTtsFile(file) == file[1] = "bot-tts"

NoCleanup == [kind |-> "none", stale |-> FALSE, changed |-> FALSE]

\* Whatever an earlier run left in the temporary directory
CleanInit ==
  /\ tmpDir \in SUBSET TmpNames
  /\ cleaned = {}
  /\ cleanupRaised = FALSE
  /\ lastCleanup = NoCleanup

\* A cleanup whose fs.unlink rejection is not caught
UnlinkRejectionUncaught(rejected) == rejected

\* try { await fs.unlink(uniqueTtsPath) } catch (err) { console.log(...) }
UnlinkRejectionEscapes(rejected) == FALSE

\* synthesizeSpeech's cleanup path runs on artifact a: fs.unlink rejects
\* when the file is missing (ENOENT) or cannot be removed
CleanupUnlink(a, removable) ==
  LET deleted == a \in tmpDir /\ removable IN
  /\ a[3] = "mp3"
  /\ tmpDir' = IF deleted THEN tmpDir \ {a} ELSE tmpDir
  /\ cleaned' = IF deleted THEN cleaned \cup {a} ELSE cleaned
  /\ cleanupRaised' = (cleanupRaised \/ UnlinkRejectionEscapes(~deleted))
  /\ lastCleanup' = [kind |-> "unlink", stale |-> a \in cleaned,
                     changed |-> deleted]
  /\ UNCHANGED OutsideClean

\* clearOldTempFiles: readdir, then fs.remove of every bot-tts file; a
\* failed remove is ignored, a failed readdir is logged
ClearOldTempFiles(readable, undeletable) ==
  LET oldTtsFiles == IF readable THEN {f \in tmpDir : IsOldTtsFile(f)} ELSE {}
      removed == oldTtsFiles \ undeletable
  IN
  /\ tmpDir' = tmpDir \ removed
  /\ cleaned' = cleaned \cup removed
  /\ UNCHANGED cleanupRaised
  /\ lastCleanup' = [kind |-> "sweep",
                     stale |-> {f \in tmpDir : IsOldTtsFile(f)} = {}
                               /\ cleaned # {},
                     changed |-> tmpDir' # tmpDir,
                     listed |-> readable,
                     failed |-> oldTtsFiles \cap undeletable]
  /\ UNCHANGED OutsideClean

CleanNext ==
  \/ \E a \in TmpArtifacts, removable \in BOOLEAN : CleanupUnlink(a, removable)
  \/ \E readable \in BOOLEAN, undeletable \in SUBSET TmpArtifacts :
       ClearOldTempFiles(readable, undeletable)

(***************************************************************************)
(* Keep-alive orchestrator: keepMeetingAlive, its four interval timers,    *)
(* the main control flow that runs beside them and handleExit              *)
(***************************************************************************)
MicroInterval     == 30000
MinorInterval     == 120000
MajorInterval     == 300000
HealthInterval    == 480000
RecoveryThreshold == 600000
PanelEvery        == 6

DemoInterval      == 300000
ShareAttempts     == 3
DemoSteps         == 5

Tiers  == {"micro", "minor", "major", "health"}
\* The keep-alive tiers and main's demoInterval
Timers == Tiers \cup {"demo"}
Unarmed == -1

Interval(t) ==
  CASE t = "micro"  -> MicroInterval
    [] t = "minor"  -> MinorInterval
    [] t = "major"  -> MajorInterval
    [] t = "health" -> HealthInterval
    [] t = "demo"   -> DemoInterval

Cb(t, p, a) == [tier |-> t, pc |-> p, alive |-> a]

\* Positions at which a callback is driving the page or the audio device
ActionPcs == {"move", "probe_speech", "probe_ui", "panel", "speech", "menu",
              "people", "goto"}

\* Positions of the main control flow
Main(p, n) == [pc |-> p, n |-> n]
MainActionPcs == {"share_speech", "share_ui", "confirm_speech", "fail_speech",
                  "demo_speech", "demo_action"}

\* Positions inside checkNeedRecovery's recovery probe
ProbePcs == {"probe_speech", "probe_ui"}

Active == BagCardinality(cbs)

Replace(old, new) == (cbs (-) SetToBag({old})) (+) SetToBag({new})

\* An error that escapes its callback and takes every callback down with it
FinishStopsAll(old) == EmptyBag

\* The callback `old` ends, by its last statement or in its catch block
Finish(old) == cbs (-) SetToBag({old})

Running == shutdown # "exited"

\* A stamp that stores the elapsed time instead of the current time
ActivityStampElapsed(lma, clock) == clock - lma

\* A stamp whose write is lost: the old value stays
ActivityStampLost(lma, clock) == lma

\* lastMajorActivity = Date.now(): lma is the value being overwritten,
\* clock is Date.now() when the assignment runs
ActivityStamp(lma, clock) == clock

\* A recovery test that waits for twice the threshold
NeedRecoveryDoubled(clock, lma) == clock - lma > 2 * RecoveryThreshold

\* checkNeedRecovery's test: timeElapsed > 600000
NeedRecovery(clock, lma) == clock - lma > RecoveryThreshold

\* A panel touch on every alive firing
PanelDueAlways(counter) == TRUE

\* keepAliveCounter % 6 === 0
PanelDue(counter) == counter % PanelEvery = 0

\* The state when keepMeetingAlive(page) has returned its four timers and
\* main enters shareScreen; the join was confirmed, the session may be lost
KAInit ==
  /\ now = 0
  /\ nextDue = [t \in Timers |-> IF t \in Tiers THEN Interval(t) ELSE Unarmed]
  /\ cbs = EmptyBag
  /\ lastMajorActivity = 0
  /\ keepAliveCounter = 0
  /\ started = 0
  /\ main = Main("share_speech", 1)
  /\ shutdown = "none"
  /\ browserClosed = FALSE
  /\ inMeeting \in BOOLEAN
  /\ flips = 0
  /\ faults = 0

\* The meeting session is lost or regained
SessionChanges ==
  /\ Running
  /\ flips < MaxFlips
  /\ now >= FirstFlipTick * MicroInterval
  /\ flips' = flips + 1
  /\ inMeeting' = ~inMeeting
  /\ UNCHANGED <<OutsideKA, now, nextDue, cbs, lastMajorActivity,
                 keepAliveCounter, started, main, shutdown, browserClosed,
                 faults>>

\* Time passes; every timer that is due has fired
Tick ==
  /\ Running
  /\ now < MaxTicks * MicroInterval
  /\ main.pc = "parked" \/ now < MainDeadlineTicks * MicroInterval
  /\ Active <= MaxLingering
  /\ \A t \in Timers : nextDue[t] # now
  /\ now' = now + MicroInterval
  /\ UNCHANGED <<OutsideKA, nextDue, cbs, lastMajorActivity,
                 keepAliveCounter, started, shutdown, browserClosed, main,
                 inMeeting, flips, faults>>

\* A one-shot timer (setTimeout) is not armed again after it fired
RearmedOnce(t, due) == Unarmed

\* setInterval(callback, interval): a timer that fired is due again one
\* interval later, whatever its callback does
Rearmed(t, due) == due + Interval(t)

\* A timer whose callback waits until no callback is inside an action
FireWhenIdle(t) ==
  /\ Running
  /\ nextDue[t] = now
  /\ Active < MaxActive
  /\ \A r \in BagToSet(cbs) : r.pc \notin ActionPcs
  /\ nextDue' = [nextDue EXCEPT ![t] = Rearmed(t, @)]
  /\ cbs' = cbs (+) SetToBag({Cb(t, "check", TRUE)})
  /\ started' = started + 1
  /\ UNCHANGED <<OutsideKA, now, lastMajorActivity, keepAliveCounter,
                 shutdown, browserClosed, main, inMeeting, flips, faults>>

\* setInterval fires the callback of tier t: it runs up to its first await,
\* checkIfInMeeting(page); the timer is re-armed whatever is still in flight
Fire(t) ==
  /\ Running
  /\ nextDue[t] = now
  /\ Active < MaxActive
  /\ nextDue' = [nextDue EXCEPT ![t] = Rearmed(t, @)]
  /\ cbs' = cbs (+) SetToBag({Cb(t, "check", TRUE)})
  /\ started' = started + 1
  /\ UNCHANGED <<OutsideKA, now, lastMajorActivity, keepAliveCounter,
                 shutdown, browserClosed, main, inMeeting, flips, faults>>

MicroFires  == Fire("micro")
MinorFires  == Fire("minor")
MajorFires  == Fire("major")
HealthFires == Fire("health")
DemoFires   == Fire("demo")

\* The tail of the micro callback after checkNeedRecovery returned in the
\* alive branch: keepAliveCounter++ and, every 6th time, the panel touch
MicroAfterRecovery(old) ==
  /\ keepAliveCounter' = keepAliveCounter + 1
  /\ cbs' = IF PanelDue(keepAliveCounter + 1)
            THEN Replace(old, Cb("micro", "panel", TRUE))
            ELSE Finish(old)

\* A micro callback that ends without calling checkNeedRecovery
MicroReturnsAtOnce(old, alive) ==
  /\ cbs' = Finish(old)
  /\ UNCHANGED keepAliveCounter

\* checkNeedRecovery is entered by the micro callback `old`
MicroCheckNeedRecovery(old, alive) ==
  IF NeedRecovery(now, lastMajorActivity)
  THEN /\ cbs' = Replace(old, Cb("micro", "probe_speech", alive))
       /\ UNCHANGED keepAliveCounter
  ELSE IF alive
       THEN MicroAfterRecovery(old)
       ELSE /\ cbs' = Finish(old)
            /\ UNCHANGED keepAliveCounter

\* micro: stillInMeeting = await checkIfInMeeting(page)
MicroOracle(alive) ==
  LET old == Cb("micro", "check", TRUE) IN
  /\ Running
  /\ BagIn(old, cbs)
  /\ alive = inMeeting
  /\ IF alive
     THEN /\ cbs' = Replace(old, Cb("micro", "move", TRUE))
          /\ UNCHANGED keepAliveCounter
     ELSE MicroCheckNeedRecovery(old, FALSE)
  /\ UNCHANGED <<OutsideKA, now, nextDue, lastMajorActivity, started,
                 shutdown, browserClosed, main, inMeeting, flips, faults>>

\* micro: await page.mouse.move(x, y), then checkNeedRecovery
MicroMoveDone(ok) ==
  LET old == Cb("micro", "move", TRUE) IN
  /\ Running
  /\ BagIn(old, cbs)
  /\ ok \/ faults < MaxFaults
  /\ faults' = IF ok THEN faults ELSE faults + 1
  /\ IF ok
     THEN MicroCheckNeedRecovery(old, TRUE)
     ELSE /\ cbs' = Finish(old)
          /\ UNCHANGED keepAliveCounter
  /\ UNCHANGED <<OutsideKA, now, nextDue, lastMajorActivity, started,
                 shutdown, browserClosed, main, inMeeting, flips>>

\* checkNeedRecovery: await synthesizeSpeech(...) returned (true or false)
MicroProbeSpeechDone(alive, ok) ==
  LET old == Cb("micro", "probe_speech", alive) IN
  /\ Running
  /\ BagIn(old, cbs)
  /\ cbs' = Replace(old, Cb("micro", "probe_ui", alive))
  /\ UNCHANGED <<OutsideKA, now, nextDue, lastMajorActivity,
                 keepAliveCounter, started, shutdown, browserClosed, main,
                 inMeeting, flips, faults>>

\* checkNeedRecovery: the chat-button touch ended (its error is caught),
\* lastMajorActivity = Date.now(), and the micro callback continues
MicroProbeUiDone(alive, ok) ==
  LET old == Cb("micro", "probe_ui", alive) IN
  /\ Running
  /\ BagIn(old, cbs)
  /\ lastMajorActivity' = ActivityStamp(lastMajorActivity, now)
  /\ IF alive
     THEN MicroAfterRecovery(old)
     ELSE /\ cbs' = Finish(old)
          /\ UNCHANGED keepAliveCounter
  /\ UNCHANGED <<OutsideKA, now, nextDue, started, shutdown, browserClosed,
                 main, inMeeting, flips, faults>>

\* micro: the panel open/close touch ended (errors ignored)
MicroPanelDone(ok) ==
  LET old == Cb("micro", "panel", TRUE) IN
  /\ Running
  /\ BagIn(old, cbs)
  /\ cbs' = Finish(old)
  /\ UNCHANGED <<OutsideKA, now, nextDue, lastMajorActivity,
                 keepAliveCounter, started, shutdown, browserClosed, main,
                 inMeeting, flips, faults>>

\* A tier that goes on to its action whatever checkIfInMeeting answered
TierOracleActsAnyway(t, alive, nextPc) ==
  LET old == Cb(t, "check", TRUE) IN
  /\ Running
  /\ BagIn(old, cbs)
  /\ alive = inMeeting
  /\ cbs' = Replace(old, Cb(t, nextPc, TRUE))
  /\ UNCHANGED <<OutsideKA, now, nextDue, lastMajorActivity,
                 keepAliveCounter, started, shutdown, browserClosed, main,
                 inMeeting, flips, faults>>

\* minor/major/health: stillInMeeting = await checkIfInMeeting(page)
\* minor and major act when alive, health acts when not alive
TierOracle(t, alive, nextPc) ==
  LET old == Cb(t, "check", TRUE) IN
  /\ Running
  /\ BagIn(old, cbs)
  /\ alive = inMeeting
  /\ cbs' = IF alive = (t # "health")
            THEN Replace(old, Cb(t, nextPc, alive))
            ELSE Finish(old)
  /\ UNCHANGED <<OutsideKA, now, nextDue, lastMajorActivity,
                 keepAliveCounter, started, shutdown, browserClosed, main,
                 inMeeting, flips, faults>>

MinorOracle(alive)  == TierOracle("minor", alive, "speech")
MajorOracle(alive)  == TierOracle("major", alive, "speech")
HealthOracle(alive) == TierOracle("health", alive, "meet_visible")
DemoOracle(alive)   == TierOracle("demo", alive, "speech")

\* A callback moves from one await to the next without touching shared state
TierStep(t, alive, from, to) ==
  LET old == Cb(t, from, alive) IN
  /\ Running
  /\ BagIn(old, cbs)
  /\ cbs' = IF to = "end" THEN Finish(old) ELSE Replace(old, Cb(t, to, alive))
  /\ UNCHANGED <<OutsideKA, now, nextDue, lastMajorActivity,
                 keepAliveCounter, started, shutdown, browserClosed, main,
                 inMeeting, flips, faults>>

\* A callback's last await ended and it runs lastMajorActivity = Date.now()
TierStamp(t, alive, from) ==
  LET old == Cb(t, from, alive) IN
  /\ Running
  /\ BagIn(old, cbs)
  /\ cbs' = Finish(old)
  /\ lastMajorActivity' = ActivityStamp(lastMajorActivity, now)
  /\ UNCHANGED <<OutsideKA, now, nextDue, keepAliveCounter, started,
                 shutdown, browserClosed, main, inMeeting, flips, faults>>

\* minor: await synthesizeSpeech(randomMessage) returned (true or false);
\* lastMajorActivity = Date.now()
MinorSpeechDone(ok) == TierStamp("minor", TRUE, "speech")

\* major: speakAndDo: await synthesizeSpeech(text) returned
MajorSpeechDone(ok) == TierStep("major", TRUE, "speech", "hold")

\* major: speakAndDo: await delay(speechDuration) ended, fn() starts the
\* menu touch
MajorHoldDone == TierStep("major", TRUE, "hold", "menu")

\* major: the menu touch ended (its error is caught inside fn);
\* lastMajorActivity = Date.now()
MajorMenuDone(ok) == TierStamp("major", TRUE, "menu")

\* health: await anyMeetElement.isVisible(...): found, not found or raised
HealthMeetVisible(found) ==
  TierStep("health", FALSE, "meet_visible",
           IF found = "found" THEN "speech" ELSE "end")

\* A health check that stamps right after its speech, without the UI touch
HealthSpeechDoneStamps(ok) == TierStamp("health", FALSE, "speech")

\* health: await synthesizeSpeech(...) returned
HealthSpeechDone(ok) == TierStep("health", FALSE, "speech", "people")

\* health: the People-panel touch ended (its error is caught);
\* lastMajorActivity = Date.now()
HealthPeopleDone(ok) == TierStamp("health", FALSE, "people")

\* demoInterval: speakAndDo of the chosen demo action: speech, hold, then
\* the follow-up's page.goto(...) and form filling
DemoSpeechDone(ok) == TierStep("demo", TRUE, "speech", "hold")
DemoHoldDone       == TierStep("demo", TRUE, "hold", "goto")
DemoGotoDone(ok)   == TierStep("demo", TRUE, "goto", "end")

(***************************************************************************)
(* main: shareScreen (up to 3 attempts), the demo speakAndDo calls, then   *)
(* demoInterval and the signal handlers                                    *)
(***************************************************************************)
\* A main whose speech and UI steps count as major activity
MainFrameStamps ==
  /\ lastMajorActivity' = now
  /\ UNCHANGED <<OutsideKA, now, cbs, keepAliveCounter, started, shutdown,
                 browserClosed, inMeeting, flips, faults>>

\* What a step of main leaves alone: lastMajorActivity and keepAliveCounter
\* are locals of keepMeetingAlive, out of main's reach
MainFrame ==
  UNCHANGED <<OutsideKA, now, cbs, lastMajorActivity, keepAliveCounter,
              started, shutdown, browserClosed, inMeeting, flips, faults>>

\* Where main goes when shareScreen attempt n has returned
AfterShare(success, n) ==
  IF success \/ n >= ShareAttempts
  THEN Main("demo_speech", 1)
  ELSE Main("share_speech", n + 1)

\* A speakAndDo of main: await synthesizeSpeech(text) returned
MainSpeechDone(ok) ==
  /\ Running
  /\ main.pc \in {"share_speech", "confirm_speech", "fail_speech",
                  "demo_speech"}
  /\ main' = Main(CASE main.pc = "share_speech"   -> "share_hold"
                    [] main.pc = "confirm_speech" -> "confirm_hold"
                    [] main.pc = "fail_speech"    -> "fail_hold"
                    [] main.pc = "demo_speech"    -> "demo_hold", main.n)
  /\ UNCHANGED nextDue
  /\ MainFrame

\* A speakAndDo of main: await delay(speechDuration) ended and the follow-up
\* starts; the follow-ups of shareScreen only log
MainHoldDone ==
  /\ Running
  /\ main.pc \in {"share_hold", "confirm_hold", "fail_hold", "demo_hold"}
  /\ main' = CASE main.pc = "share_hold"   -> Main("share_ui", main.n)
                [] main.pc = "confirm_hold" -> AfterShare(TRUE, main.n)
                [] main.pc = "fail_hold"    -> AfterShare(FALSE, main.n)
                [] main.pc = "demo_hold"    -> Main("demo_action", main.n)
  /\ UNCHANGED nextDue
  /\ MainFrame

\* shareScreen: the present / entire-screen / share clicks and key presses
\* ended; an error goes to shareScreen's catch
MainShareUiDone(ok) ==
  /\ Running
  /\ main.pc = "share_ui"
  /\ main' = Main(IF ok THEN "confirm_speech" ELSE "fail_speech", main.n)
  /\ UNCHANGED nextDue
  /\ MainFrame

\* The follow-up of a demo speakAndDo ended (its error is caught); after the
\* last one main creates demoInterval, registers handleExit and parks
MainDemoActionDone(ok) ==
  /\ Running
  /\ main.pc = "demo_action"
  /\ IF main.n < DemoSteps
     THEN /\ main' = Main("demo_speech", main.n + 1)
          /\ UNCHANGED nextDue
     ELSE /\ main' = Main("parked", main.n)
          /\ nextDue' = [nextDue EXCEPT !["demo"] = now + DemoInterval]
  /\ MainFrame

(***************************************************************************)
(* main: the join retry loop that comes before keepMeetingAlive            *)
(***************************************************************************)
\* for (let attempt = 1; attempt <= 3; attempt++)
JoinAttempts == 3

JoinPcs == {"join", "join_delay"}
JoinFailedPcs == {"failed_speech", "failed_delay", "ended"}

\* main is about to call joinMeet for the first time: no timer exists yet
JoinInit ==
  /\ now = 0
  /\ nextDue = [t \in Timers |-> Unarmed]
  /\ cbs = EmptyBag
  /\ lastMajorActivity = 0
  /\ keepAliveCounter = 0
  /\ started = 0
  /\ main = Main("join", 1)
  /\ shutdown = "none"
  /\ browserClosed = FALSE
  /\ inMeeting \in BOOLEAN
  /\ flips = 0
  /\ faults = 0

\* A main that starts the keep-alive and the demo after the last attempt
\* whatever it returned
AfterJoinGoesOn(outcome, n) ==
  IF outcome = "raised" THEN Main("failed_speech", n)
  ELSE IF outcome = "true" \/ n >= JoinAttempts THEN Main("share_speech", 1)
  ELSE Main("join_delay", n)

\* Where main goes when joinMeet attempt n returned true or false or raised:
\* on to keepMeetingAlive and shareScreen, to the 10 s delay before the next
\* attempt, or to the goodbye of the failure branch (of the catch block)
AfterJoin(outcome, n) ==
  IF outcome = "true" THEN Main("share_speech", 1)
  ELSE IF outcome = "false" /\ n < JoinAttempts THEN Main("join_delay", n)
  ELSE Main("failed_speech", n)

\* joinSuccess = await joinMeet(page, url) ended; after a success
\* keepMeetingAlive(page) creates the four interval timers
JoinReturns(outcome) ==
  /\ main.pc = "join"
  /\ main' = AfterJoin(outcome, main.n)
  /\ nextDue' = IF outcome = "true"
                THEN [t \in Timers |->
                        IF t \in Tiers THEN now + Interval(t) ELSE Unarmed]
                ELSE nextDue
  /\ MainFrame

\* await delay(10000) ended: the next attempt starts
JoinDelayDone ==
  /\ main.pc = "join_delay"
  /\ main' = Main("join", main.n + 1)
  /\ UNCHANGED nextDue
  /\ MainFrame

\* The failure branch: await synthesizeSpeech(...) returned, then
\* await delay(5000)
JoinFailedSpeechDone(ok) ==
  /\ main.pc = "failed_speech"
  /\ main' = Main("failed_delay", main.n)
  /\ UNCHANGED nextDue
  /\ MainFrame

\* The failure branch: the delay ended and browser.close() is awaited
JoinFailedClose ==
  /\ main.pc = "failed_delay"
  /\ main' = Main("ended", main.n)
  /\ browserClosed' = TRUE
  /\ UNCHANGED <<OutsideKA, now, nextDue, cbs, lastMajorActivity,
                 keepAliveCounter, started, shutdown, inMeeting, flips,
                 faults>>

JoinSteps ==
  \/ \E outcome \in {"true", "false", "raised"} : JoinReturns(outcome)
  \/ JoinDelayDone
  \/ \E ok \in BOOLEAN : JoinFailedSpeechDone(ok)
  \/ JoinFailedClose

(***************************************************************************)
(* handleExit (SIGINT / SIGTERM)                                           *)
(***************************************************************************)
\* The timers handleExit cancels before it does anything else
TimersCancelledOnExit == {}

\* SIGINT or SIGTERM arrives: handleExit starts, page is open, and it awaits
\* checkIfInMeeting(page)
HandleExit ==
  /\ shutdown = "none"
  /\ main.pc = "parked"
  /\ now >= MaxTicks * MicroInterval
  /\ shutdown' = "check"
  /\ nextDue' = [t \in Timers |->
                   IF t \in TimersCancelledOnExit
                   THEN Unarmed ELSE nextDue[t]]
  /\ UNCHANGED <<OutsideKA, now, cbs, lastMajorActivity, keepAliveCounter,
                 started, browserClosed, main, inMeeting, flips, faults>>

\* handleExit: checkIfInMeeting answered (an error goes to the catch)
ExitOracle(alive) ==
  /\ shutdown = "check"
  /\ alive = inMeeting
  /\ shutdown' = IF alive THEN "goodbye" ELSE "closing"
  /\ UNCHANGED <<OutsideKA, now, nextDue, cbs, lastMajorActivity,
                 keepAliveCounter, started, browserClosed, main, inMeeting,
                 flips, faults>>

\* A handleExit that gives up when the goodbye speech failed
AfterGoodbyeGivesUp(ok) == IF ok THEN "delay" ELSE "failed"

\* Where handleExit goes when the goodbye speech returned true or false:
\* the result is not looked at, await delay(3000) comes next
AfterGoodbye(ok) == "delay"

\* handleExit: await synthesizeSpeech('I am now leaving...') returned
ExitSpeechDone(ok) ==
  /\ shutdown = "goodbye"
  /\ shutdown' = AfterGoodbye(ok)
  /\ UNCHANGED <<OutsideKA, now, nextDue, cbs, lastMajorActivity,
                 keepAliveCounter, started, browserClosed, main, inMeeting,
                 flips, faults>>

\* handleExit: await delay(3000) ended; browser.close() is called
ExitDelayDone ==
  /\ shutdown = "delay"
  /\ shutdown' = "closing"
  /\ UNCHANGED <<OutsideKA, now, nextDue, cbs, lastMajorActivity,
                 keepAliveCounter, started, browserClosed, main, inMeeting,
                 flips, faults>>

\* The browser goes away while handleExit awaits browser.close()
BrowserCloses ==
  /\ shutdown = "closing"
  /\ shutdown' = "closed"
  /\ browserClosed' = TRUE
  /\ UNCHANGED <<OutsideKA, now, nextDue, cbs, lastMajorActivity,
                 keepAliveCounter, started, main, inMeeting, flips, faults>>

\* handleExit resumes after browser.close() and calls process.exit(0)
ProcessExit ==
  /\ shutdown = "closed"
  /\ shutdown' = "exited"
  /\ UNCHANGED <<OutsideKA, now, nextDue, cbs, lastMajorActivity,
                 keepAliveCounter, started, browserClosed, main, inMeeting,
                 flips, faults>>

\* SIGINT or SIGTERM arrives as soon as main has registered handleExit,
\* before the first timer is due
EarlySignal ==
  /\ shutdown = "none"
  /\ main.pc = "parked"
  /\ shutdown' = "check"
  /\ nextDue' = [t \in Timers |->
                   IF t \in TimersCancelledOnExit
                   THEN Unarmed ELSE nextDue[t]]
  /\ UNCHANGED <<OutsideKA, now, cbs, lastMajorActivity, keepAliveCounter,
                 started, browserClosed, main, inMeeting, flips, faults>>

KAEnv ==
  \/ Tick
  \/ SessionChanges

KAMain ==
  \/ \E ok \in BOOLEAN : MainSpeechDone(ok)
  \/ MainHoldDone
  \/ \E ok \in BOOLEAN : MainShareUiDone(ok)
  \/ \E ok \in BOOLEAN : MainDemoActionDone(ok)

KATiers ==
  \/ MicroFires \/ MinorFires \/ MajorFires \/ HealthFires \/ DemoFires
  \/ \E alive \in BOOLEAN : DemoOracle(alive)
  \/ \E ok \in BOOLEAN : DemoSpeechDone(ok)
  \/ DemoHoldDone
  \/ \E ok \in BOOLEAN : DemoGotoDone(ok)
  \/ \E alive \in BOOLEAN : MicroOracle(alive)
  \/ \E ok \in BOOLEAN : MicroMoveDone(ok)
  \/ \E alive \in BOOLEAN, ok \in BOOLEAN : MicroProbeSpeechDone(alive, ok)
  \/ \E alive \in BOOLEAN, ok \in BOOLEAN : MicroProbeUiDone(alive, ok)
  \/ \E ok \in BOOLEAN : MicroPanelDone(ok)
  \/ \E alive \in BOOLEAN : MinorOracle(alive)
  \/ \E ok \in BOOLEAN : MinorSpeechDone(ok)
  \/ \E alive \in BOOLEAN : MajorOracle(alive)
  \/ \E ok \in BOOLEAN : MajorSpeechDone(ok)
  \/ MajorHoldDone
  \/ \E ok \in BOOLEAN : MajorMenuDone(ok)
  \/ \E alive \in BOOLEAN : HealthOracle(alive)
  \/ \E found \in {"found", "absent", "raised"} : HealthMeetVisible(found)
  \/ \E ok \in BOOLEAN : HealthSpeechDone(ok)
  \/ \E ok \in BOOLEAN : HealthPeopleDone(ok)

KAExit ==
  \/ HandleExit
  \/ \E alive \in BOOLEAN : ExitOracle(alive)
  \/ \E ok \in BOOLEAN : ExitSpeechDone(ok)
  \/ ExitDelayDone
  \/ BrowserCloses
  \/ ProcessExit

KANext == KAEnv \/ KAMain \/ KATiers \/ KAExit

JoinNext == JoinSteps \/ Tick \/ KAMain \/ MicroFires

(***************************************************************************)
(* Artifact paths of concurrent synthesizeSpeech calls (bot.js)            *)
(***************************************************************************)
Requests == 1..MaxRequests

\* path.join(tmpDir, `bot-tts-${Date.now()}.mp3`): the name is the millisecond
\* clock alone
uniqueTtsPath(ms) == <<"bot-tts", ms, "mp3">>

\* The request has named its artifact and has not returned yet
PathInUse(r) == reqPc[r] \in {"write", "play", "unlink"}

\* The files of tmpDir once path has been removed or is about to be rewritten
WithoutPath(audio, path) == {f \in audio : f[1] # path}

PathInit ==
  /\ reqPc = [r \in Requests |-> "idle"]
  /\ reqPath = [r \in Requests |-> NoPath]
  /\ msNow = 0
  /\ tmpAudio = {}

\* Date.now() advances between two steps of the event loop
ClockTick ==
  /\ msNow < MaxMs
  /\ msNow' = msNow + 1
  /\ UNCHANGED <<OutsidePaths, platform, reqPc, reqPath, tmpAudio>>

\* A caller enters synthesizeSpeech: await openai.audio.speech.create(...)
ReqStart(r) ==
  /\ reqPc[r] = "idle"
  /\ reqPc' = [reqPc EXCEPT ![r] = "create"]
  /\ UNCHANGED <<OutsidePaths, platform, reqPath, msNow, tmpAudio>>

\* The response and its arrayBuffer arrive; the path is named from Date.now()
\* and fs.writeFile is issued.  ok = FALSE: create or arrayBuffer rejected.
ReqName(r, ok) ==
  /\ reqPc[r] = "create"
  /\ IF ok
     THEN /\ reqPath' = [reqPath EXCEPT ![r] = uniqueTtsPath(msNow)]
          /\ reqPc' = [reqPc EXCEPT ![r] = "write"]
     ELSE /\ reqPc' = [reqPc EXCEPT ![r] = "done"]
          /\ UNCHANGED reqPath
  /\ UNCHANGED <<OutsidePaths, platform, msNow, tmpAudio>>

\* await fs.writeFile(uniqueTtsPath, buffer) completes: the file now holds
\* this request's audio, whatever it held before
ReqWritten(r, ok) ==
  /\ reqPc[r] = "write"
  /\ IF ok
     THEN /\ tmpAudio' = WithoutPath(tmpAudio, reqPath[r])
                            \cup {<<reqPath[r], r>>}
          /\ reqPc' = [reqPc EXCEPT ![r] = "play"]
     ELSE /\ reqPc' = [reqPc EXCEPT ![r] = "done"]
          /\ UNCHANGED tmpAudio
  /\ UNCHANGED <<OutsidePaths, platform, reqPath, msNow>>

\* The player commands and the wait have finished.  A player error is caught
\* locally on win32 only; elsewhere it reaches the outer catch.
ReqPlayed(r, ok) ==
  /\ reqPc[r] = "play"
  /\ reqPc' = [reqPc EXCEPT ![r] = IF ok \/ platform = "win32"
                                   THEN "unlink" ELSE "done"]
  /\ UNCHANGED <<OutsidePaths, platform, reqPath, msNow, tmpAudio>>

\* try { await fs.unlink(uniqueTtsPath) } catch { log }; return true
ReqUnlink(r) ==
  /\ reqPc[r] = "unlink"
  /\ tmpAudio' = WithoutPath(tmpAudio, reqPath[r])
  /\ reqPc' = [reqPc EXCEPT ![r] = "done"]
  /\ UNCHANGED <<OutsidePaths, platform, reqPath, msNow>>

\* The standalone script starts in another process and runs
\* clearOldTempFiles on the same os.tmpdir(): every bot-tts file whose
\* fs.remove succeeds goes, whoever wrote it and whether it is in use
StartupSweep(undeletable) ==
  /\ tmpAudio' = {f \in tmpAudio : ~IsOldTtsFile(f[1]) \/ f \in undeletable}
  /\ tmpAudio' # tmpAudio
  /\ UNCHANGED <<OutsidePaths, platform, reqPc, reqPath, msNow>>

PathNext ==
  \/ ClockTick
  \/ \E r \in Requests : ReqStart(r)
  \/ \E r \in Requests, ok \in BOOLEAN : ReqName(r, ok)
  \/ \E r \in Requests, ok \in BOOLEAN : ReqWritten(r, ok)
  \/ \E r \in Requests, ok \in BOOLEAN : ReqPlayed(r, ok)
  \/ \E r \in Requests : ReqUnlink(r)
  \/ \E undeletable \in SUBSET tmpAudio : StartupSweep(undeletable)

\* The cleanup paths are not run
CleanIdle == CleanInit /\ tmpDir = {}

(***************************************************************************)
(* checkIfInMeeting, called by the micro callback                          *)
(***************************************************************************)
\* inMeetingSelectors.length
InMeetingSelectors == 9

\* A micro callback has fired and enters checkIfInMeeting(page)
ChkInit ==
  /\ chkPc = "probing"
  /\ selectorResults = <<>>
  /\ urlIsMeeting \in BOOLEAN
  /\ stillInMeeting = "none"
  /\ recoveryChecked = FALSE

\* No micro callback is followed probe by probe
ChkIdle == ChkInit /\ urlIsMeeting

\* try { if (await page.locator(selector).isVisible({ timeout: 2000 }))
\* return true } catch (err) { }: a visible element ends the loop, a hidden
\* one or a probe that raises goes on to the next selector
ProbeSelector(outcome) ==
  /\ chkPc = "probing"
  /\ selectorResults' = Append(selectorResults, outcome)
  /\ IF outcome = "visible"
     THEN /\ stillInMeeting' = "true"
          /\ chkPc' = "answered"
     ELSE /\ UNCHANGED stillInMeeting
          /\ chkPc' = IF Len(selectorResults) + 1 = InMeetingSelectors
                      THEN "url" ELSE "probing"
  /\ UNCHANGED <<OutsideChk, urlIsMeeting, recoveryChecked>>

\* No selector was visible: currentUrl = page.url() decides
UrlCheck ==
  /\ chkPc = "url"
  /\ stillInMeeting' = IF urlIsMeeting THEN "true" ELSE "false"
  /\ chkPc' = "answered"
  /\ UNCHANGED <<OutsideChk, selectorResults, urlIsMeeting, recoveryChecked>>

\* micro: if (stillInMeeting) the pointer movement comes first, else
\* await checkNeedRecovery()
MicroBranch ==
  /\ chkPc = "answered"
  /\ IF stillInMeeting = "true"
     THEN /\ chkPc' = "move"
          /\ UNCHANGED recoveryChecked
     ELSE /\ chkPc' = "ended"
          /\ recoveryChecked' = TRUE
  /\ UNCHANGED <<OutsideChk, selectorResults, urlIsMeeting, stillInMeeting>>

\* micro: await page.mouse.move(x, y) returned, then checkNeedRecovery is
\* called, or it raised and the callback's catch block logs the error
MicroMoved(ok) ==
  /\ chkPc = "move"
  /\ chkPc' = "ended"
  /\ recoveryChecked' = ok
  /\ UNCHANGED <<OutsideChk, selectorResults, urlIsMeeting, stillInMeeting>>

(***************************************************************************)
(* A speaking tier callback and its write of lastMajorActivity             *)
(***************************************************************************)
\* No speaking callback is followed
SpkIdle ==
  /\ spkTier = "minor"
  /\ spkPc = "idle"
  /\ spkResult = "none"

\* A callback of tier spkTier has reached its await synthesizeSpeech(...)
SpkInit ==
  /\ spkTier \in Tiers
  /\ spkPc = "speech"
  /\ spkResult = "none"

\* await synthesizeSpeech(...) returned true or false; the value is dropped.
\* minor runs lastMajorActivity = Date.now() next, major waits for the
\* hold of speakAndDo, the recovery probe and health start their UI touch
SpkSpeechReturns(ok) ==
  /\ spkPc = "speech"
  /\ spkResult' = IF ok THEN "true" ELSE "false"
  /\ spkPc' = CASE spkTier = "minor" -> "ended"
                [] spkTier = "major" -> "hold"
                [] OTHER -> "touch"
  /\ lastMajorActivity' = IF spkTier = "minor"
                          THEN ActivityStamp(lastMajorActivity, msNow)
                          ELSE lastMajorActivity
  /\ UNCHANGED <<OutsideSpk, spkTier, msNow>>

\* major: speakAndDo's await delay(speechDuration) ended, fn() starts
SpkHoldEnds ==
  /\ spkPc = "hold"
  /\ spkPc' = "touch"
  /\ UNCHANGED <<OutsideSpk, spkTier, spkResult, lastMajorActivity, msNow>>

\* The UI touch ended or raised (caught by its own try/catch);
\* lastMajorActivity = Date.now()
SpkTouchEnds(ok) ==
  /\ spkPc = "touch"
  /\ spkPc' = "ended"
  /\ lastMajorActivity' = ActivityStamp(lastMajorActivity, msNow)
  /\ UNCHANGED <<OutsideSpk, spkTier, spkResult, msNow>>

SpkNext ==
  \/ ClockTick
  \/ \E ok \in BOOLEAN : SpkSpeechReturns(ok)
  \/ SpkHoldEnds
  \/ \E ok \in BOOLEAN : SpkTouchEnds(ok)

ChkNext ==
  \/ \E outcome \in {"visible", "hidden", "raised"} : ProbeSelector(outcome)
  \/ UrlCheck
  \/ MicroBranch
  \/ \E ok \in BOOLEAN : MicroMoved(ok)

\* The text-to-speech chain on its own: the orchestrator is not started
TTSSpecInit ==
  /\ TTSInit /\ KAInit /\ inMeeting /\ SpeakInit /\ HoldInit /\ CleanIdle
  /\ PathInit
  /\ ChkIdle
  /\ SpkIdle

SpecTTS == TTSSpecInit /\ [][TTSNext]_vars

\* The keep-alive orchestrator of bot.js: generateTTS is not used by it
KASpecInit ==
  /\ TTSInit
  /\ variant = "module"
  /\ platform = "linux"
  /\ openaiConfigured
  /\ sayLoaded
  /\ KAInit
  /\ SpeakInit
  /\ HoldInit
  /\ PathInit
  /\ ChkIdle
  /\ SpkIdle
  /\ CleanIdle

SpecKA == KASpecInit /\ [][KANext]_vars

\* The steps of handleExit after the signal
KAExitSteps ==
  \/ \E alive \in BOOLEAN : ExitOracle(alive)
  \/ \E ok \in BOOLEAN : ExitSpeechDone(ok)
  \/ ExitDelayDone
  \/ BrowserCloses
  \/ ProcessExit

KAShutdownNext == KAMain \/ EarlySignal \/ KAExitSteps

\* bot.js on any platform, the session alive or lost
KAShutdownInit ==
  /\ TTSInit
  /\ variant = "module"
  /\ openaiConfigured
  /\ sayLoaded
  /\ KAInit
  /\ SpeakInit
  /\ HoldInit
  /\ CleanIdle
  /\ PathInit
  /\ ChkIdle
  /\ SpkIdle

\* main and a shutdown that is signalled before the first timer is due.
\* Every await of main and of handleExit returns in the end; the signal
\* itself may never arrive.
SpecKAShutdown ==
  /\ KAShutdownInit
  /\ [][KAShutdownNext]_vars
  /\ WF_vars(KAMain)
  /\ WF_vars(KAExitSteps)

\* The steps the timer callbacks can take while checkIfInMeeting answers
\* not-alive: the micro tier goes to checkNeedRecovery, the minor, major and
\* demo callbacks return, the health tier tries its deeper recovery
KALostTiers ==
  \/ MicroFires \/ MinorFires \/ MajorFires \/ HealthFires \/ DemoFires
  \/ \E alive \in BOOLEAN : DemoOracle(alive)
  \/ \E alive \in BOOLEAN : MicroOracle(alive)
  \/ \E alive \in BOOLEAN, ok \in BOOLEAN : MicroProbeSpeechDone(alive, ok)
  \/ \E alive \in BOOLEAN, ok \in BOOLEAN : MicroProbeUiDone(alive, ok)
  \/ \E alive \in BOOLEAN : MinorOracle(alive)
  \/ \E alive \in BOOLEAN : MajorOracle(alive)
  \/ \E alive \in BOOLEAN : HealthOracle(alive)
  \/ \E found \in {"found", "absent", "raised"} : HealthMeetVisible(found)
  \/ \E ok \in BOOLEAN : HealthSpeechDone(ok)
  \/ \E ok \in BOOLEAN : HealthPeopleDone(ok)

KALostNext == Tick \/ KAMain \/ KALostTiers

\* The session is lost from the start
KALostInit == KASpecInit /\ ~inMeeting

\* The orchestrator on a session that stays lost, with no signal arriving,
\* under the scheduling of Node.js: the clock advances, a due timer fires,
\* and every await of a callback or of main returns in the end (Playwright
\* calls time out, the players exit)
SpecKALost ==
  /\ KALostInit
  /\ [][KALostNext]_vars
  /\ WF_vars(Tick)
  /\ WF_vars(KAMain)
  /\ WF_vars(KALostTiers)

\* One caller of speakAndDo in bot.js, on any platform
SpeakSpecInit ==
  /\ TTSInit
  /\ variant = "module"
  /\ openaiConfigured
  /\ sayLoaded
  /\ KAInit
  /\ inMeeting
  /\ SpeakInit
  /\ HoldInit
  /\ PathInit
  /\ ChkIdle
  /\ SpkIdle
  /\ CleanIdle

SpecSpeak == SpeakSpecInit /\ [][SpeakNext]_vars

\* The cleanup paths on their own, run in any order on any directory
CleanSpecInit ==
  /\ TTSInit
  /\ variant = "standalone"
  /\ platform = "linux"
  /\ openaiConfigured
  /\ sayLoaded
  /\ KAInit
  /\ inMeeting
  /\ SpeakInit
  /\ HoldInit
  /\ PathInit
  /\ ChkIdle
  /\ SpkIdle
  /\ CleanInit

SpecClean == CleanSpecInit /\ [][CleanNext]_vars

\* speakAndDo's hold computation on its own
\* Concurrent synthesizeSpeech calls of bot.js, on any platform
PathSpecInit ==
  /\ TTSInit
  /\ variant = "module"
  /\ openaiConfigured
  /\ sayLoaded
  /\ KAInit
  /\ inMeeting
  /\ SpeakInit
  /\ HoldInit
  /\ CleanIdle
  /\ PathInit
  /\ ChkIdle
  /\ SpkIdle

SpecPaths == PathSpecInit /\ [][PathNext]_vars

HoldSpecInit == SpeakSpecInit /\ platform = "linux"

\* One micro callback on its own, whatever the page answers
ChkSpecInit ==
  /\ TTSInit
  /\ variant = "module"
  /\ platform = "linux"
  /\ openaiConfigured
  /\ sayLoaded
  /\ KAInit
  /\ SpeakInit
  /\ HoldInit
  /\ CleanIdle
  /\ PathInit
  /\ ChkInit
  /\ SpkIdle

SpecChk == ChkSpecInit /\ [][ChkNext]_vars

\* main from its first join attempt on, on any platform
JoinSpecInit ==
  /\ TTSInit
  /\ variant = "module"
  /\ openaiConfigured
  /\ sayLoaded
  /\ JoinInit
  /\ SpeakInit
  /\ HoldInit
  /\ CleanIdle
  /\ PathInit
  /\ ChkIdle
  /\ SpkIdle

SpecJoin == JoinSpecInit /\ [][JoinNext]_vars

\* One callback of a speaking tier on its own, on any platform
SpkSpecInit ==
  /\ TTSInit
  /\ variant = "module"
  /\ openaiConfigured
  /\ sayLoaded
  /\ KAInit
  /\ SpeakInit
  /\ HoldInit
  /\ CleanIdle
  /\ PathInit
  /\ ChkInit
  /\ SpkInit

SpecSpk == SpkSpecInit /\ [][SpkNext]_vars

SpecHold == HoldSpecInit /\ [][HoldNext]_vars

(***************************************************************************)
(* Properties of the synthesis provider chain (checked under SpecTTS)      *)
(***************************************************************************)
ProviderRank(p) == CHOOSE k \in 1..Len(Providers) : Providers[k] = p

ConfiguredProviders ==
  {"platform"} \cup (IF openaiConfigured THEN {"openai"} ELSE {})
               \cup (IF sayLoaded THEN {"say"} ELSE {})

\* C1: within one generateTTS call the providers are attempted in the fixed
\* order remote API (only if configured) -> node-say (only if loaded) ->
\* platform-native fallback, each at most once, none skipped, and no provider
\* is attempted after an earlier one has produced its artifact.
C1_ProviderOrder ==
  /\ \A i, j \in 1..Len(attempts) :
       i < j => ProviderRank(attempts[i]) < ProviderRank(attempts[j])
  /\ Range(attempts) \subseteq ConfiguredProviders
  /\ \A i \in 1..Len(attempts) :
       \A q \in ConfiguredProviders :
         ProviderRank(q) < ProviderRank(attempts[i]) => q \in Range(attempts)
  /\ \A i \in 1..Len(attempts) :
       attempts[i] \in produced => i = Len(attempts)

C1_Witness ==
  /\ attempts = <<"openai", "say", "platform">>
  /\ produced = {"platform"}
  /\ result = "true"

\* C2: generateTTS resolves false only when every configured provider was
\* attempted and none produced an artifact, and it resolves true exactly
\* when one, and only one, provider produced an audio artifact.
C2_ResultMeaning ==
  /\ result = "false" =>
       /\ ConfiguredProviders \subseteq Range(attempts)
       /\ produced = {}
  /\ result = "true" => Cardinality(produced) = 1
  /\ (pc = "resolved" /\ Cardinality(produced) = 1) => result = "true"

C2_Witness ==
  /\ result = "false"
  /\ attempts = <<"openai", "say", "platform">>
  /\ platform = "win32"
  /\ call \in directSpeech

\* C3: generateTTS never rejects or throws to its caller: whatever fails
\* (remote API, node-say, OS command, writing or removing the temporary
\* script), the promise resolves to a boolean and no exception escapes from
\* a provider callback.
C3_NeverThrows ==
  /\ uncaught # "platformSpecificTTS"
  /\ pc = "resolved" => result \in {"true", "false"}

\* C8: when a speech request is made with silent=true, no playback command
\* is issued to the audio device for its artifact, whichever provider
\* produced it.
C8_SilentNoPlayback ==
  \A r \in playLog : ~args[r.call].silentPlay


(***************************************************************************)
(* Properties of the keep-alive orchestrator (checked under SpecKA)        *)
(***************************************************************************)
\* Timer callbacks that are driving the page or the audio device
ActingCbs == {r \in BagToSet(cbs) : r.pc \in ActionPcs}

\* The main control flow is driving the page or the audio device (the
\* follow-up of the second demo speakAndDo is only a delay)
MainActing ==
  /\ main.pc \in MainActionPcs
  /\ ~(main.pc = "demo_action" /\ main.n = 2)

\* handleExit is speaking its goodbye
ExitActing == shutdown = "goodbye"

\* Micro callbacks inside checkNeedRecovery's probe
ProbingCbs == {r \in BagToSet(cbs) : r.pc \in ProbePcs}

\* C4: at no time are two automation actions (pointer move, panel click,
\* speech probe) in progress against the page at once, whether they come
\* from two keep-alive tiers or from a tier and the main control flow.
C4_ActionsExclusive ==
  /\ \A r \in ActingCbs : CopiesIn(r, cbs) = 1
  /\ Cardinality(ActingCbs) <= 1
  /\ ActingCbs # {} => ~MainActing /\ ~ExitActing

\* C5: at most one recovery probe (checkNeedRecovery's speech check-in plus
\* UI touch) is in progress at any time, even when timer firings overlap.
C5_SingleProbe ==
  /\ \A r \in ProbingCbs : CopiesIn(r, cbs) = 1
  /\ Cardinality(ProbingCbs) <= 1

\* C6: once shutdown has begun (handleExit on SIGINT/SIGTERM) every tier
\* timer is cancelled: no tier callback starts after that point.
C6_NoStartAfterShutdown ==
  [][shutdown # "none" => started' = started]_vars

\* C7: lastMajorActivity never decreases, whatever the interleaving of tier
\* firings and recovery probes.
C7_ActivityMonotonic ==
  [][lastMajorActivity' >= lastMajorActivity]_vars

\* A recovery probe has stamped lastMajorActivity after a stale period
C7_Witness ==
  /\ lastMajorActivity > RecoveryThreshold
  /\ ~inMeeting
  /\ flips = 0


(***************************************************************************)
(* Properties of the speech orchestrator (checked under SpecSpeak)         *)
(***************************************************************************)
\* C9: every speakAndDo call invokes its follow-up action exactly once,
\* whether speech synthesis succeeded, failed, or playback failed.
C9_FollowupOnce ==
  /\ followups <= 1
  /\ (fnGiven /\ sp \in {"followup", "returned", "rejected"}) => followups = 1

C9_Witness ==
  /\ sp = "returned"
  /\ fnGiven
  /\ ~speechSuccess
  /\ followups = 1

\* C10: speakAndDo never propagates an error: if the follow-up action throws
\* or rejects, or synthesis fails, speakAndDo still resolves normally.
C10_NoErrorPropagates ==
  /\ sp # "rejected"
  /\ (sp = "followup" => followups = 1) /\ (fnThrew => sp = "returned")

C10_Witness ==
  /\ sp = "returned"
  /\ fnThrew
  /\ ~speechSuccess

\* The order of the stages of one speech request
StageRank(e) ==
  CASE e = "synthesized" -> 1
    [] e = "play"        -> 2
    [] e = "unlink"      -> 3
    [] e = "hold"        -> 4
    [] e = "held"        -> 5
    [] e = "followup"    -> 6

\* C11: within one speech request the stages happen in strict order:
\* synthesis completes before playback is started, playback is started
\* before the computed hold begins, and the follow-up action starts only
\* after the hold has elapsed.
C11_StageOrder ==
  /\ \A i, j \in 1..Len(stages) :
       i < j => StageRank(stages[i]) <= StageRank(stages[j])
  /\ \A j \in 1..Len(stages) :
       /\ stages[j] = "play" =>
            \E i \in 1..(j - 1) : stages[i] = "synthesized"
       /\ stages[j] = "held" => \E i \in 1..(j - 1) : stages[i] = "hold"
       /\ stages[j] = "followup" => \E i \in 1..(j - 1) : stages[i] = "held"

C11_Witness ==
  /\ sp = "followup"
  /\ stages = <<"synthesized", "play", "play", "unlink", "hold", "held",
                "followup">>

\* synthesizeSpeech has returned to speakAndDo
SynthReturned == sp \in {"hold", "followup", "returned"}

\* C13: a failure of the playback step never changes the outcome of the
\* speech request: once the audio artifact has been written, the operation
\* reports success whatever the player commands return, on every platform.
C13_PlaybackFailureSwallowed ==
  (SynthReturned /\ "synthesized" \in Range(stages)) => speechSuccess

\* C14: every working artifact written by a speech operation is subject to
\* a delete attempt after its playback and before the operation completes,
\* on every path (including the paths where playback fails).
C14_ArtifactDeleteAttempted ==
  (SynthReturned /\ "synthesized" \in Range(stages))
    => "unlink" \in Range(stages)

(***************************************************************************)
(* Properties of the hold computation (checked under SpecHold)             *)
(***************************************************************************)
\* C12: the hold computed by speakAndDo equals
\* max(3000, wordCount/3*1000 + punctuationCount*300) ms; it is never below
\* the 3000 ms floor for any text, and for two texts with the same
\* punctuation count the one with fewer words never gets a longer hold.
C12_HoldFormula ==
  holdDone =>
    /\ holdValue >= 3 * 3000
    /\ holdValue >= 1000 * wordCount(holdText)
                      + 3 * 300 * punctuationCount(holdText)
    /\ (holdValue = 3 * 3000
        \/ holdValue = 1000 * wordCount(holdText)
                         + 3 * 300 * punctuationCount(holdText))
    /\ \A other \in Texts :
         (/\ punctuationCount(other) = punctuationCount(holdText)
          /\ wordCount(other) < wordCount(holdText))
           => speechDuration(other) <= holdValue

C12_Witness ==
  /\ holdDone
  /\ holdValue > 3 * 3000
  /\ \E other \in Texts :
       /\ punctuationCount(other) = punctuationCount(holdText)
       /\ wordCount(other) < wordCount(holdText)
       /\ speechDuration(other) < holdValue

(***************************************************************************)
(* Properties of the cleanup paths (checked under SpecClean)               *)
(***************************************************************************)
\* C15: cleanup is idempotent: running the cleanup path a second time on an
\* artifact that was already deleted (the unlink in synthesizeSpeech, or a
\* second clearOldTempFiles sweep) raises no error and changes nothing.
C15_CleanupIdempotent ==
  /\ ~cleanupRaised
  /\ lastCleanup.stale => ~lastCleanup.changed
  /\ cleaned \cap tmpDir = {}

C15_Witness ==
  /\ lastCleanup.kind = "unlink"
  /\ lastCleanup.stale
  /\ cleaned = TmpArtifacts

(***************************************************************************)
(* Copy of the artifact to the caller's outputPath (generateTTS)           *)
(***************************************************************************)
\* The working artifact of the provider that succeeded in the current call:
\* uniqueMp3Path for OpenAI, uniqueWavPath for node-say and the platform TTS
WorkingPath == IF "openai" \in produced THEN uniqueMp3Path ELSE uniqueWavPath

\* generateTTS has resolved true for a call that supplied an outputPath
ResolvedTrueWithOutputPath ==
  pc = "resolved" /\ result = "true" /\ outputPath # NoPath

\* C16: when generateTTS has resolved true for an outputPath that differs from
\* the working artifact path, a copy of the working artifact to that
\* outputPath has been issued and the working artifact is still on disk
\* (whether or not the copy succeeded)
C16_CopiedToDestination ==
  (ResolvedTrueWithOutputPath /\ CopyNeeded(outputPath, WorkingPath)) =>
    /\ <<WorkingPath, outputPath>> \in copyLog
    /\ WorkingPath \in files

\* C17: whenever generateTTS has resolved true for a call that supplied an
\* outputPath, a file exists at exactly that outputPath at that moment
C17_AudioAtOutputPath ==
  ResolvedTrueWithOutputPath => outputPath \in files

\* C18: two synthesizeSpeech requests that are in progress at the same time
\* never use the same temporary artifact path, and the file a request is
\* playing is still the one that request wrote
C18_DistinctPaths ==
  /\ \A r1, r2 \in Requests :
       (r1 # r2 /\ PathInUse(r1) /\ PathInUse(r2)) => reqPath[r1] # reqPath[r2]
  /\ \A r \in Requests :
       reqPc[r] = "play" => <<reqPath[r], r>> \in tmpAudio

(***************************************************************************)
(* Recovery probes of keepMeetingAlive                                     *)
(***************************************************************************)
\* A firing of tier t returns straight from its liveness check: it starts no
\* speech, no UI touch and no recovery probe
EndsUnprobed(t) ==
  LET old == Cb(t, "check", TRUE) IN
  /\ BagIn(old, cbs)
  /\ cbs' = Finish(old)

\* C19: a firing of any of the four tiers that runs its check while
\* now - lastMajorActivity > recoveryThreshold does not end without having
\* triggered a recovery probe
C19_EveryTierProbes ==
  [][\A t \in Tiers :
       NeedRecovery(now, lastMajorActivity) => ~EndsUnprobed(t)]_vars

\* A recovery probe is in progress at its first step, the audio check-in:
\* checkNeedRecovery of the micro tier or the deeper recovery of the health
\* tier awaits its synthesizeSpeech
RecoveryProbeStarted ==
  \E r \in BagToSet(cbs) :
    \/ r.tier = "micro" /\ r.pc = "probe_speech"
    \/ r.tier = "health" /\ r.pc = "speech"

\* C20: when checkIfInMeeting keeps answering not-alive, so for longer than
\* recoveryThreshold, and the timers keep firing, a recovery probe is
\* eventually started
C20_ProbeEventuallyStarted == <>RecoveryProbeStarted

\* C20 witness: the session has been not alive from the start, more than
\* recoveryThreshold has passed without any major activity, and the micro
\* tier has started the recovery probe
C20_Witness ==
  /\ ~inMeeting
  /\ shutdown = "none"
  /\ NeedRecovery(now, lastMajorActivity)
  /\ BagIn(Cb("micro", "probe_speech", FALSE), cbs)

\* C21: as long as no teardown signal has arrived, the browser is open and
\* each of the four tier timers is armed (due now or later), whatever the
\* liveness checks, actions and recovery probes have returned so far
C21_TiersStayArmed ==
  shutdown = "none" =>
    /\ ~browserClosed
    /\ \A t \in Tiers : nextDue[t] # Unarmed /\ nextDue[t] >= now

\* C21 witness: the session was never alive, a recovery probe has run to its
\* end (its speech and its chat touch failing or not), and no signal has
\* arrived
C21_Witness ==
  /\ shutdown = "none"
  /\ ~inMeeting
  /\ flips = 0
  /\ lastMajorActivity > RecoveryThreshold
  /\ \A t \in Tiers : nextDue[t] > now

C23_SpeechTerminates == pc # "never_resolves"

\* C24: while a callback of another tier is suspended inside an action, a
\* tier's timer is never overdue, and when it is due its callback can start
\* at once (the number of callbacks in flight permitting)
C24_OtherTierNotPostponed ==
  \A t \in Tiers :
    (/\ Running
     /\ \E r \in BagToSet(cbs) : r.tier # t /\ r.pc \in ActionPcs)
    => /\ nextDue[t] >= now
       /\ (nextDue[t] = now /\ Active < MaxActive) => ENABLED Fire(t)

\* The micro callback started after the major callback that is still
\* suspended in its speech
C24_Witness ==
  /\ BagIn(Cb("major", "speech", TRUE), cbs)
  /\ BagIn(Cb("micro", "check", TRUE), cbs)
  /\ nextDue["micro"] - MicroInterval > nextDue["major"] - MajorInterval

\* C25: at most one callback of a tier is in progress: a tier's callback is
\* never started again while its previous callback has not finished
C25_OneFiringPerTier ==
  \A r1, r2 \in BagToSet(cbs) :
    (r1.tier \in Tiers /\ r1.tier = r2.tier) =>
      r1 = r2 /\ CopiesIn(r1, cbs) = 1

\* C26: a step in which an error is raised inside a tier callback ends that
\* callback only: every timer stays armed as it was, the callbacks of the
\* other tiers, main and the shutdown state are untouched
C26_ErrorStaysInFiring ==
  [][faults' > faults =>
       /\ nextDue' = nextDue
       /\ \A t \in Tiers : nextDue[t] # Unarmed
       /\ \E old \in BagToSet(cbs) :
            old.tier \in Tiers /\ cbs' = cbs (-) SetToBag({old})
       /\ shutdown' = shutdown
       /\ browserClosed' = browserClosed
       /\ main' = main
       /\ lastMajorActivity' = lastMajorActivity]_vars

\* An error was raised in a micro callback; the minor callback is in
\* progress and every tier is armed for a later time
C26_Witness ==
  /\ faults > 0
  /\ shutdown = "none"
  /\ \E r \in BagToSet(cbs) : r.tier = "minor" /\ r.pc = "speech"
  /\ \A t \in Tiers : nextDue[t] > now

\* C27: no update of lastMajorActivity is lost: every step in which a
\* callback passes its lastMajorActivity = Date.now() leaves the variable at
\* the clock value of that step, and no other step changes it, so after any
\* interleaving it holds the clock value of the update applied last
C27_NoLostUpdate ==
  [][/\ (\E r \in BagToSet(cbs) :
           /\ <<r.tier, r.pc>> \in {<<"micro", "probe_ui">>,
                                     <<"minor", "speech">>,
                                     <<"major", "menu">>,
                                     <<"health", "people">>}
           /\ CopiesIn(r, cbs') < CopiesIn(r, cbs))
        => lastMajorActivity' = now
     /\ lastMajorActivity' # lastMajorActivity
        => lastMajorActivity' = now]_vars

\* One callback has stamped lastMajorActivity at this instant while a
\* concurrent callback of another tier is about to stamp it too
C27_Witness ==
  /\ now > 0
  /\ lastMajorActivity = now
  /\ \E r \in BagToSet(cbs) : <<r.tier, r.pc>> \in {<<"minor", "speech">>,
                                                      <<"major", "menu">>}

\* C28: lastMajorActivity is changed only by a step of a keep-alive timer
\* callback; the steps of main (screen sharing, demo actions), of main's
\* demo timer and of the shutdown handler leave it unchanged
C28_OnlyTiersStamp ==
  [][/\ lastMajorActivity' # lastMajorActivity
        => /\ \E r \in BagToSet(cbs) :
                r.tier \in Tiers /\ CopiesIn(r, cbs') < CopiesIn(r, cbs)
           /\ main' = main
           /\ shutdown' = shutdown
     /\ (main' # main \/ shutdown' # shutdown)
        => lastMajorActivity' = lastMajorActivity]_vars

\* Main has finished its speech and UI actions after the clock moved on,
\* and no keep-alive callback has stamped lastMajorActivity yet
C28_Witness ==
  /\ main.pc = "parked"
  /\ now > 0
  /\ lastMajorActivity = 0
  /\ started = 0

\* C29: a sweep of clearOldTempFiles leaves every file whose name does not
\* start with bot-tts in the directory, adds no file and raises nothing;
\* when the directory could be listed, the bot-tts files left behind are
\* exactly those whose removal failed, so a failed removal does not stop
\* the removal of the others
C29_SweepRemovesOldTtsFiles ==
  [][lastCleanup'.kind = "sweep" =>
       /\ {f \in tmpDir' : f[1] # "bot-tts"} = {f \in tmpDir : f[1] # "bot-tts"}
       /\ tmpDir' \subseteq tmpDir
       /\ lastCleanup'.listed =>
            /\ {f \in tmpDir' : f[1] = "bot-tts"} = lastCleanup'.failed
            /\ cleaned' = cleaned \cup
                            {f \in tmpDir \ tmpDir' : f[1] = "bot-tts"}
       /\ cleanupRaised' = cleanupRaised]_vars

\* A sweep removed one bot-tts file although the removal of another one
\* failed, and a script file of platformSpecificTTS is still there
C29_Witness ==
  /\ lastCleanup.kind = "sweep"
  /\ lastCleanup.listed
  /\ lastCleanup.changed
  /\ lastCleanup.failed # {}
  /\ lastCleanup.failed = {f \in tmpDir : f[1] = "bot-tts"}
  /\ \E f \in tmpDir : f[1] = "tts-script"
  /\ ~cleanupRaised

\* C30: the step in which a micro callback learns that the session is not
\* alive is the step in which it runs checkNeedRecovery: past the threshold
\* it starts the recovery probe at once, otherwise it ends; from there on
\* the callback only goes through the probe and ends, with no pointer
\* movement, no panel touch and no count of keepAliveCounter
C30_LostMicroRecoversAtOnce ==
  [][/\ (/\ ~inMeeting
         /\ CopiesIn(Cb("micro", "check", TRUE), cbs')
              < CopiesIn(Cb("micro", "check", TRUE), cbs))
        => /\ cbs' = IF now - lastMajorActivity > RecoveryThreshold
                     THEN Replace(Cb("micro", "check", TRUE),
                                  Cb("micro", "probe_speech", FALSE))
                     ELSE Finish(Cb("micro", "check", TRUE))
           /\ keepAliveCounter' = keepAliveCounter
     /\ \A r \in BagToSet(cbs) :
          (r.tier = "micro" /\ ~r.alive /\ CopiesIn(r, cbs') < CopiesIn(r, cbs))
          => /\ keepAliveCounter' = keepAliveCounter
             /\ \/ cbs' = Finish(r)
                \/ r.pc = "probe_speech"
                   /\ cbs' = Replace(r, Cb("micro", "probe_ui", FALSE))]_vars

\* A micro callback that found the session not alive is at the UI touch of
\* its recovery probe; no micro callback has counted an alive firing
C30_Witness ==
  /\ ~inMeeting
  /\ flips = 0
  /\ keepAliveCounter = 0
  /\ BagIn(Cb("micro", "probe_ui", FALSE), cbs)

\* C31: the step in which a minor or major callback gets its answer from
\* checkIfInMeeting starts the utterance when the answer is alive and ends
\* the callback, with lastMajorActivity unchanged, when it is not alive; a
\* step in which such a callback writes lastMajorActivity ends a callback
\* that was answered alive
C31_MinorMajorActOnlyAlive ==
  [][\A t \in {"minor", "major"} :
       /\ CopiesIn(Cb(t, "check", TRUE), cbs') < CopiesIn(Cb(t, "check", TRUE), cbs)
          => /\ lastMajorActivity' = lastMajorActivity
             /\ cbs' = IF inMeeting
                       THEN Replace(Cb(t, "check", TRUE), Cb(t, "speech", TRUE))
                       ELSE Finish(Cb(t, "check", TRUE))
       /\ \A r \in BagToSet(cbs) :
            (/\ r.tier = t
             /\ r.pc # "check"
             /\ CopiesIn(r, cbs') < CopiesIn(r, cbs))
            => r.alive]_vars

\* The session is lost from the start and the minor timer has fired and
\* been answered: nothing is in flight and lastMajorActivity is untouched
C31_Witness ==
  /\ ~inMeeting
  /\ flips = 0
  /\ now = MinorInterval
  /\ nextDue["minor"] = 2 * MinorInterval
  /\ cbs = EmptyBag
  /\ lastMajorActivity = 0

\* C32: a health callback answered alive ends at once; answered not alive
\* it looks for a Meet element and then either ends without any action or
\* goes through the audio probe and the People-panel touch, in that order,
\* and only the end of the touch writes lastMajorActivity; no step of it
\* changes a timer or the shutdown state
C32_HealthActsOnlyWhenLost ==
  [][\A r \in BagToSet(cbs) :
       (r.tier = "health" /\ CopiesIn(r, cbs') < CopiesIn(r, cbs))
       => /\ nextDue' = nextDue
          /\ shutdown' = shutdown
          /\ browserClosed' = browserClosed
          /\ CASE r.pc = "check" ->
                    /\ lastMajorActivity' = lastMajorActivity
                    /\ cbs' = IF inMeeting
                              THEN Finish(r)
                              ELSE Replace(r, Cb("health", "meet_visible", FALSE))
               [] r.pc = "meet_visible" ->
                    /\ lastMajorActivity' = lastMajorActivity
                    /\ \/ cbs' = Finish(r)
                       \/ cbs' = Replace(r, Cb("health", "speech", FALSE))
               [] r.pc = "speech" ->
                    /\ lastMajorActivity' = lastMajorActivity
                    /\ cbs' = Replace(r, Cb("health", "people", FALSE))
               [] r.pc = "people" ->
                    /\ lastMajorActivity' = now
                    /\ cbs' = Finish(r)
               [] OTHER -> FALSE]_vars

\* The session is lost from the start; the first health check found a Meet
\* element, ran its probe and touch, and stamped lastMajorActivity
C32_Witness ==
  /\ ~inMeeting
  /\ flips = 0
  /\ now = HealthInterval
  /\ lastMajorActivity = HealthInterval
  /\ \A t \in Tiers : nextDue[t] > now

\* Every probe of checkIfInMeeting raised
NoProbeAnswered ==
  /\ Len(selectorResults) = InMeetingSelectors
  /\ \A k \in 1..InMeetingSelectors : selectorResults[k] = "raised"

\* C33: a micro callback whose liveness probes all raised takes the session
\* for not alive and has called checkNeedRecovery when it ends
C33_UndeterminedIsNotAlive ==
  (chkPc = "ended" /\ NoProbeAnswered) =>
     stillInMeeting = "false" /\ recoveryChecked

\* The micro callback r passes keepAliveCounter++ in this step: it was
\* answered alive and its checkNeedRecovery returns, straight after the
\* pointer movement or at the end of the recovery probe
PassesCount(r) ==
  /\ r.tier = "micro" /\ r.alive
  /\ CopiesIn(r, cbs') < CopiesIn(r, cbs)
  /\ \/ r.pc = "probe_ui"
     \/ /\ r.pc = "move"
        /\ faults' = faults
        /\ now - lastMajorActivity <= RecoveryThreshold

\* C34: keepAliveCounter goes up by one exactly in the steps in which an
\* alive micro callback passes its count, also when another micro callback
\* is in flight, and in no other step; that callback goes on to the panel
\* touch exactly when the new count is a multiple of 6 and ends otherwise
C34_PanelEverySixth ==
  [][/\ \A r \in BagToSet(cbs) :
          PassesCount(r) =>
            /\ keepAliveCounter' = keepAliveCounter + 1
            /\ cbs' = IF keepAliveCounter' % PanelEvery = 0
                      THEN Replace(r, Cb("micro", "panel", TRUE))
                      ELSE Finish(r)
     /\ keepAliveCounter' # keepAliveCounter
          => \E r \in BagToSet(cbs) : PassesCount(r)
     /\ CopiesIn(Cb("micro", "panel", TRUE), cbs')
          > CopiesIn(Cb("micro", "panel", TRUE), cbs)
          => keepAliveCounter' # keepAliveCounter]_vars

\* The sixth alive firing is at its panel touch while the next micro
\* callback is already in flight
C34_Witness ==
  /\ keepAliveCounter = PanelEvery
  /\ BagIn(Cb("micro", "panel", TRUE), cbs)
  /\ BagIn(Cb("micro", "check", TRUE), cbs)

\* C35: playSound acts on the flag the caller gave to generateTTS, whichever
\* provider produced the artifact: a player command was issued only for a
\* call whose own flag does not suppress playback, and playback was
\* suppressed only for a call whose own flag does
C35_SilentFlagUnchanged ==
  /\ \A r \in playLog : ~PlaySuppressed(variant, args[r.call].silentPlay)
  /\ \A c \in silentLog : PlaySuppressed(variant, args[c].silentPlay)

\* C36: once the synthesizeSpeech call of a tier callback or recovery probe
\* has reported failure, no step of that callback changes lastMajorActivity
C36_StampOnlyAfterSpeech ==
  [][(spkResult' = "false" /\ spkPc # "idle")
       => lastMajorActivity' = lastMajorActivity]_vars

\* C37: whenever no synthesizeSpeech call is in progress, no loopback
\* module that a call loaded is still loaded
C37_LoopbackUnloaded ==
  sp \in {"idle", "hold", "followup", "returned"} => loopbacks = 0

\* What holds of main's join loop and of the timers in every state
JoinStateOk ==
  /\ main.pc \in JoinPcs \cup JoinFailedPcs =>
       /\ main.n \in 1..JoinAttempts
       /\ \A t \in Timers : nextDue[t] = Unarmed
       /\ started = 0
       /\ cbs = EmptyBag
  /\ main.pc \notin JoinPcs \cup JoinFailedPcs =>
       \A t \in Tiers : nextDue[t] # Unarmed
  /\ main.pc = "ended" => browserClosed
  /\ browserClosed => main.pc = "ended"

\* C38: joinMeet is attempted at most 3 times; while main is joining, and
\* for ever once joining has failed, no timer exists and no tier callback
\* has started; the timers exist as soon as main is past a successful
\* attempt, after which no further attempt is made; a main that gave up
\* ends with the browser closed
C38_TimersOnlyAfterJoin ==
  [][/\ JoinStateOk'
     /\ main.pc \notin JoinPcs => main'.pc \notin JoinPcs
     /\ main.pc \in JoinFailedPcs => main'.pc \in JoinFailedPcs]_vars

\* All three attempts returned false and main has closed the browser
C38_Witness ==
  /\ main = Main("ended", JoinAttempts)
  /\ browserClosed
  /\ started = 0
  /\ \A t \in Timers : nextDue[t] = Unarmed

\* C39: a step that removes files from the temporary directory without
\* being a step of a speech request, that is a sweep of clearOldTempFiles,
\* removes no file that the request which wrote it is still playing
C39_SweepSparesInFlight ==
  [][(reqPc' = reqPc /\ tmpAudio' # tmpAudio) =>
       \A f \in tmpAudio \ tmpAudio' :
         ~(reqPc[f[2]] = "play" /\ reqPath[f[2]] = f[1])]_vars

====
